---- MODULE Spec2Model ----
(***************************************************************************)
(* The route-planning core of js/pathfinding.js (module Pathfinder): the   *)
(* Graph class (addNode, addEdge, createGridGraph, findClosestNode), the   *)
(* haversine distance, the A* search (aStar, reconstructPath) and          *)
(* calculateRoute on a caller-supplied graph.                              *)
(*                                                                         *)
(* Units.  A coordinate is an integer number of hundredths of a degree     *)
(* (0.01 deg), in a small window around lat 0, lng 0.  A distance is an    *)
(* integer number of metres: the haversine distance rounded up to the next *)
(* whole metre (rounding a metric up keeps it a metric).  Node objects     *)
(* live in `heap`; a reference is an index into it, 0 is null/undefined.   *)
(***************************************************************************)
EXTENDS Integers, Sequences, FiniteSets, TLC

(* ------------------------------ bounds -------------------------------- *)

\* SpecGraph: addNode and createGridGraph are offered while fewer than
\* MaxNodes node objects exist
MaxNodes == 3
\* SpecGraph: addEdge is offered while fewer than MaxEdges edges exist
MaxEdges == 2
\* largest gridSize handed to createGridGraph
MaxGrid == 3
\* SpecSearch: largest number of addEdge calls that built a searched graph
MaxBuiltEdges == 4
\* SpecSearch: largest number of addEdge calls before, and after, an id is added again
MaxReAddEdges == 1
\* SpecSearch: largest number of calculateRoute calls on one graph
MaxSearches == 2

(* --------------------------- JS values -------------------------------- *)

\* null / undefined, as a node reference
Null == 0

\* a missing id argument (null, undefined and "" are all falsy in `id || ...`)
NoId == ""

\* IEEE not-a-number, as a coordinate or a distance
NaN == 1000000

\* the initial minDistance of findClosestNode
Infinity == 2000000

IsNaN(x) == x = NaN

\* a faulty comparison: x <= y in the place of x < y
LessOrEqual(x, y) ==
    /\ ~IsNaN(x)
    /\ ~IsNaN(y)
    /\ (y = Infinity \/ (x # Infinity /\ x <= y))

\* x < y on JS numbers: false whenever an operand is NaN
Less(x, y) ==
    /\ ~IsNaN(x)
    /\ ~IsNaN(y)
    /\ x # Infinity
    /\ (y = Infinity \/ x < y)

\* the coordinates handed to addNode (hundredths of a degree)
Positions == {<<0, 0>>, <<0, 2>>, <<2, 2>>}

\* the explicit ids the callers hand to addNode
Ids == {"a"}

\* text of a coordinate, as a template literal prints it: 2 -> "0.02"
RECURSIVE CoordText(_)
CoordText(x) ==
    IF x = 0 THEN "0"
    ELSE IF x < 0 THEN "-" \o CoordText(0 - x)
    ELSE IF x % 10 = 0 THEN "0." \o ToString(x \div 10)
    ELSE IF x < 10 THEN "0.0" \o ToString(x)
    ELSE "0." \o ToString(x)

\* text of a grid index
IndexText(i) == ToString(i)

(* --------------------------- haversine -------------------------------- *)

\* (R * 1000 * PI / 180 / 100)^2: the square of the metres in 0.01 degree
\* of a great circle of radius R = 6371 km
SqMetresPerStep == 1236431

\* the smallest d in lo..hi with d * d >= n
RECURSIVE CeilSqrtIn(_, _, _)
CeilSqrtIn(n, lo, hi) ==
    IF lo >= hi THEN lo
    ELSE LET mid == (lo + hi) \div 2
         IN IF mid * mid >= n THEN CeilSqrtIn(n, lo, mid)
            ELSE CeilSqrtIn(n, mid + 1, hi)

\* the smallest d with d * d >= n, for n below 2^31
CeilSqrt(n) == CeilSqrtIn(n, 0, 46340)

\* the largest dLat^2 + dLng^2 between two coordinates of the modelled window
MaxSq == 1700

\* metres, rounded up, of the great-circle arc between two points that lie
\* dLat and dLng hundredths of a degree apart with dLat^2 + dLng^2 = q
ArcMetres == [q \in 0..MaxSq |-> CeilSqrt(SqMetresPerStep * q)]

\* two antipodal points, (8, 0) and (-8, 180) degrees.  For them, in either
\* order, the double-precision sum  a = sin^2(dLat/2) + cos cos sin^2(dLng/2)
\* is 1.0000000000000002, so Math.sqrt(1 - a) and with it the distance is NaN
FarNorth == <<800, 0>>
FarSouth == <<0 - 800, 18000>>
RoundsAboveOne ==
    {<<FarNorth[1], FarNorth[2], FarSouth[1], FarSouth[2]>>,
     <<FarSouth[1], FarSouth[2], FarNorth[1], FarNorth[2]>>}

\* haversineDistance(lat1, lng1, lat2, lng2) in metres, rounded up.  In the
\* modelled window (|lat|, |lng| <= 0.4 deg) cos(lat) and sin(x)/x are 1 to
\* within 3e-5, and  a = sin^2(dLat/2) + cos cos sin^2(dLng/2),
\* R * 2 * atan2(sqrt a, sqrt(1 - a))  is  R * sqrt(dLat^2 + dLng^2) (radians);
\* the rounded-up metres agree with the double-precision value of the
\* source's formula exactly for |lat|, |lng| <= 0.06 deg and to within one
\* metre in the rest of the window.
haversineDistance(lat1, lng1, lat2, lng2) ==
    IF IsNaN(lat1) \/ IsNaN(lng1) \/ IsNaN(lat2) \/ IsNaN(lng2) THEN NaN
    ELSE IF <<lat1, lng1, lat2, lng2>> \in RoundsAboveOne THEN NaN
    ELSE LET dLat == lat2 - lat1
             dLng == lng2 - lng1
         IN ArcMetres[dLat * dLat + dLng * dLng]

(* ------------------------------ Node ---------------------------------- *)

\* new Node(lat, lng, id)
Node(lat, lng, id) ==
    [lat |-> lat, lng |-> lng,
     id |-> IF id # NoId THEN id ELSE CoordText(lat) \o "," \o CoordText(lng),
     g |-> 0, h |-> 0, f |-> 0, parent |-> Null, neighbors |-> <<>>]

\* a.distanceTo(b), on two node records
distanceTo(a, b) == haversineDistance(a.lat, a.lng, b.lat, b.lng)

(* ------------------------------ Graph --------------------------------- *)
\* A graph value is [heap |-> sequence of node records, nodes |-> the Map
\* this.nodes as a sequence of [key, ref] in the Map's iteration order].

NewGraph == [heap |-> <<>>, nodes |-> <<>>]

\* Map.prototype.get: the reference stored under key, or undefined
MapGet(m, key) ==
    IF \E k \in 1..Len(m) : m[k].key = key
    THEN m[CHOOSE k \in 1..Len(m) : m[k].key = key].ref
    ELSE Null

\* Map.prototype.set: a key already present keeps its place in the order
MapSet(m, key, ref) ==
    IF \E k \in 1..Len(m) : m[k].key = key
    THEN [k \in 1..Len(m) |-> IF m[k].key = key THEN [key |-> key, ref |-> ref] ELSE m[k]]
    ELSE Append(m, [key |-> key, ref |-> ref])

\* Graph.addNode(lat, lng, id)
addNode(G, lat, lng, id) ==
    LET n == Node(lat, lng, id)
    IN [heap |-> Append(G.heap, n),
        nodes |-> MapSet(G.nodes, n.id, Len(G.heap) + 1)]

\* Graph.getNode(id)
getNode(G, id) == MapGet(G.nodes, id)

\* r.neighbors.push(x)
PushNeighbor(heap, r, x) ==
    [heap EXCEPT ![r].neighbors = Append(@, x)]

\* a faulty addEdge: node2 is pushed to node1's list, node1 not to node2's
addEdgeOneWay(G, nodeId1, nodeId2) ==
    LET node1 == MapGet(G.nodes, nodeId1)
        node2 == MapGet(G.nodes, nodeId2)
    IN IF node1 # Null /\ node2 # Null
       THEN [G EXCEPT !.heap = PushNeighbor(G.heap, node1, node2)]
       ELSE G

\* Graph.addEdge(nodeId1, nodeId2)
addEdge(G, nodeId1, nodeId2) ==
    LET node1 == MapGet(G.nodes, nodeId1)
        node2 == MapGet(G.nodes, nodeId2)
    IN IF node1 # Null /\ node2 # Null
       THEN [G EXCEPT !.heap = PushNeighbor(PushNeighbor(G.heap, node1, node2), node2, node1)]
       ELSE G

\* the id `${i},${j}` of a grid cell
GridId(i, j) == IndexText(i) \o "," \o IndexText(j)

\* TRUE; it makes the graph value G be computed where it stands, and not
\* deferred, call inside call, to the end of a loop
Computed(G) == G.heap = G.heap

\* a faulty loop condition: i <= gridSize
InGridInclusive(i, gridSize) == i <= gridSize

\* the condition `i < gridSize` of the two for loops over the grid indices
InGrid(i, gridSize) == i < gridSize

\* latStep and lngStep: (radiusKm / 111) / gridSize, a division by zero giving
\* Infinity; center is on the equator, where Math.cos(0) = 1 divides lngStep
GridStep(radius, gridSize) ==
    IF IsNaN(radius) THEN NaN
    ELSE IF gridSize = 0 THEN Infinity
    ELSE radius \div gridSize

\* center - (radiusKm / 111) / 2 + i * step  (0 * Infinity is NaN)
GridCoord(c, radius, i, step) ==
    IF IsNaN(c) \/ IsNaN(radius) \/ IsNaN(step) THEN NaN
    ELSE IF step = Infinity THEN (IF i = 0 THEN NaN ELSE Infinity)
    ELSE c - radius \div 2 + i * step

\* the inner loop (over j) of the first loop nest of createGridGraph, in row
\* i from column j; yields the graph and the local array `nodes` as the
\* sequence of the cells <<i, j>> created
RECURSIVE GridRow(_, _, _, _, _, _, _)
GridRow(G, cells, center, radius, gridSize, i, j) ==
    IF Computed(G) /\ ~InGrid(j, gridSize) THEN [graph |-> G, cells |-> cells]
    ELSE LET latStep == GridStep(radius, gridSize)
             lngStep == GridStep(radius, gridSize)
             lat == GridCoord(center[1], radius, i, latStep)
             lng == GridCoord(center[2], radius, j, lngStep)
         IN GridRow(addNode(G, lat, lng, GridId(i, j)), Append(cells, <<i, j>>),
                    center, radius, gridSize, i, j + 1)

\* the outer loop (over i) of the first loop nest of createGridGraph, from row i
RECURSIVE GridNodes(_, _, _, _, _, _)
GridNodes(G, cells, center, radius, gridSize, i) ==
    IF Computed(G) /\ ~InGrid(i, gridSize) THEN [graph |-> G, cells |-> cells]
    ELSE LET row == GridRow(G, cells, center, radius, gridSize, i, 0)
         IN GridNodes(row.graph, row.cells, center, radius, gridSize, i + 1)

\* a faulty cell: the edge to (i + 1, j - 1) is left out
GridEdgesNoAntiDiagonal(G, gridSize, i, j) ==
    LET id == GridId(i, j)
        G1 == IF j < gridSize - 1 THEN addEdge(G, id, GridId(i, j + 1)) ELSE G
        G2 == IF i < gridSize - 1 THEN addEdge(G1, id, GridId(i + 1, j)) ELSE G1
        G3 == IF i < gridSize - 1 /\ j < gridSize - 1
              THEN addEdge(G2, id, GridId(i + 1, j + 1)) ELSE G2
    IN G3

\* the four conditional addEdge calls made for cell (i, j)
GridEdgesOf(G, gridSize, i, j) ==
    LET id == GridId(i, j)
        G1 == IF j < gridSize - 1 THEN addEdge(G, id, GridId(i, j + 1)) ELSE G
        G2 == IF i < gridSize - 1 THEN addEdge(G1, id, GridId(i + 1, j)) ELSE G1
        G3 == IF i < gridSize - 1 /\ j < gridSize - 1
              THEN addEdge(G2, id, GridId(i + 1, j + 1)) ELSE G2
        G4 == IF i < gridSize - 1 /\ j > 0
              THEN addEdge(G3, id, GridId(i + 1, j - 1)) ELSE G3
    IN G4

\* the second loop of createGridGraph over the entries lo..hi of the local
\* array `nodes`, in their order: the first half of the entries, then the rest
RECURSIVE GridEdgesBetween(_, _, _, _, _)
GridEdgesBetween(G, cells, gridSize, lo, hi) ==
    IF Computed(G) /\ lo > hi THEN G
    ELSE IF lo = hi THEN GridEdgesOf(G, gridSize, cells[lo][1], cells[lo][2])
    ELSE LET mid == (lo + hi) \div 2
         IN GridEdgesBetween(GridEdgesBetween(G, cells, gridSize, lo, mid),
                             cells, gridSize, mid + 1, hi)

\* the second loop of createGridGraph, from entry k of the local array `nodes`
GridEdges(G, cells, gridSize, k) == GridEdgesBetween(G, cells, gridSize, k, Len(cells))

\* Graph.createGridGraph(center, radiusKm, gridSize), radius standing for
\* radiusKm / 111 in hundredths of a degree
createGridGraph(G, center, radius, gridSize) ==
    LET made == GridNodes(G, <<>>, center, radius, gridSize, 0)
    IN GridEdges(made.graph, made.cells, gridSize, 1)

\* one pass of the loop body of findClosestNode, for entry k of the Map;
\* best carries closest and minDistance
ClosestStep(G, lat, lng, k, best) ==
    LET r == G.nodes[k].ref
        distance == haversineDistance(lat, lng, G.heap[r].lat, G.heap[r].lng)
    IN IF Less(distance, best.minDistance)
       THEN [closest |-> r, minDistance |-> distance]
       ELSE best

\* the loop of findClosestNode over the entries lo..hi of the Map, in their
\* order: the first half of the entries, then the rest
RECURSIVE ClosestBetween(_, _, _, _, _, _)
ClosestBetween(G, lat, lng, lo, hi, best) ==
    IF best = best /\ lo > hi THEN best
    ELSE IF lo = hi THEN ClosestStep(G, lat, lng, lo, best)
    ELSE LET mid == (lo + hi) \div 2
         IN ClosestBetween(G, lat, lng, mid + 1, hi,
                           ClosestBetween(G, lat, lng, lo, mid, best))

\* Graph.findClosestNode(lat, lng)
findClosestNode(G, lat, lng) ==
    ClosestBetween(G, lat, lng, 1, Len(G.nodes),
                   [closest |-> Null, minDistance |-> Infinity]).closest

(* ------------------------------- A* ----------------------------------- *)

\* a faulty initialisation: it also empties the start node's neighbor list
aStarInitDetached(heap, s, t) ==
    LET d == distanceTo(heap[s], heap[t])
    IN [heap EXCEPT ![s].g = 0, ![s].h = d, ![s].f = d, ![s].neighbors = <<>>]

\* the initialisation of aStar: start.g = 0, start.h = start.f = distance to goal
aStarInit(heap, s, t) ==
    LET d == distanceTo(heap[s], heap[t])
    IN [heap EXCEPT ![s].g = 0, ![s].h = d, ![s].f = d]

\* a faulty scan: it takes the highest f instead of the lowest
RECURSIVE HighestF(_, _, _, _)
HighestF(heap, open, i, currentIndex) ==
    IF i > Len(open) THEN currentIndex
    ELSE IF heap[open[i]].f > heap[open[currentIndex]].f
         THEN HighestF(heap, open, i + 1, i)
         ELSE HighestF(heap, open, i + 1, currentIndex)

\* a faulty scan: <= instead of <, the last of several lowest f is taken
RECURSIVE LowestFLast(_, _, _, _)
LowestFLast(heap, open, i, currentIndex) ==
    IF i > Len(open) THEN currentIndex
    ELSE IF heap[open[i]].f <= heap[open[currentIndex]].f
         THEN LowestFLast(heap, open, i + 1, i)
         ELSE LowestFLast(heap, open, i + 1, currentIndex)

\* the scan for the lowest f, from index i, carrying currentIndex
RECURSIVE LowestF(_, _, _, _)
LowestF(heap, open, i, currentIndex) ==
    IF i > Len(open) THEN currentIndex
    ELSE IF heap[open[i]].f < heap[open[currentIndex]].f
         THEN LowestF(heap, open, i + 1, i)
         ELSE LowestF(heap, open, i + 1, currentIndex)

\* openSet.splice(currentIndex, 1)
Splice(open, currentIndex) ==
    [k \in 1..(Len(open) - 1) |-> IF k < currentIndex THEN open[k] ELSE open[k + 1]]

\* a faulty find: it never finds the id
NeverInOpenSet(heap, open, id) == FALSE

\* openSet.find(n => n.id === id), as the truth value the code uses
InOpenSet(heap, open, id) == \E k \in 1..Len(open) : heap[open[k]].id = id

\* a faulty loop condition: the loop is left with one node still open
OpenSetAboveOne(open) == Len(open) > 1

\* the loop condition of aStar
OpenSetNotEmpty(open) == Len(open) > 0

\* a faulty test: an equal tentative g replaces g and parent
NoImprovementAbove(tentativeG, g) == tentativeG > g

\* the test that leaves a neighbor already in the open set untouched
NoImprovement(tentativeG, g) == tentativeG >= g

\* the loop over current.neighbors, from entry k; yields the heap and the open set
RECURSIVE ExamineNeighbors(_, _, _, _, _, _)
ExamineNeighbors(heap, open, closed, cur, t, k) ==
    IF k > Len(heap[cur].neighbors) THEN [heap |-> heap, openSet |-> open]
    ELSE LET neighbor == heap[cur].neighbors[k]
             tentativeG == heap[cur].g + distanceTo(heap[cur], heap[neighbor])
             inOpenSet == InOpenSet(heap, open, heap[neighbor].id)
             hh == distanceTo(heap[neighbor], heap[t])
         IN IF heap[neighbor].id \in closed
            THEN ExamineNeighbors(heap, open, closed, cur, t, k + 1)
            ELSE IF inOpenSet /\ NoImprovement(tentativeG, heap[neighbor].g)
            THEN ExamineNeighbors(heap, open, closed, cur, t, k + 1)
            ELSE ExamineNeighbors(
                     [heap EXCEPT ![neighbor].parent = cur,
                                  ![neighbor].g = tentativeG,
                                  ![neighbor].h = hh,
                                  ![neighbor].f = tentativeG + hh],
                     IF inOpenSet THEN open ELSE Append(open, neighbor),
                     closed, cur, t, k + 1)

\* the while loop of reconstructPath.  The loop changes no parent link, so a
\* walk that has made more steps than there are node objects is inside a
\* cycle of parent links and never ends: ends = FALSE.
RECURSIVE Walk(_, _, _, _)
Walk(heap, cur, path, steps) ==
    IF cur = Null THEN [ends |-> TRUE, path |-> path]
    ELSE IF steps >= Len(heap) THEN [ends |-> FALSE, path |-> path]
    ELSE Walk(heap, heap[cur].parent,
              <<[lat |-> heap[cur].lat, lng |-> heap[cur].lng]>> \o path, steps + 1)

\* a faulty walk: push instead of unshift, the path comes out goal first
RECURSIVE WalkPush(_, _, _, _)
WalkPush(heap, cur, path, steps) ==
    IF cur = Null THEN [ends |-> TRUE, path |-> path]
    ELSE IF steps >= Len(heap) THEN [ends |-> FALSE, path |-> path]
    ELSE WalkPush(heap, heap[cur].parent,
                  path \o <<[lat |-> heap[cur].lat, lng |-> heap[cur].lng]>>, steps + 1)

reconstructPathPush(heap, n) == WalkPush(heap, n, <<>>, 0)

\* reconstructPath(node)
reconstructPath(heap, n) == Walk(heap, n, <<>>, 0)


\* one test of the condition of aStar's while loop and, where it holds, one
\* pass of the loop body.  run.returned says that aStar has returned:
\* found = FALSE is the return of null, walk what reconstructPath yields
aStarPass(run, t) ==
    IF run.returned THEN run
    ELSE IF ~OpenSetNotEmpty(run.openSet)
    THEN [run EXCEPT !.returned = TRUE, !.found = FALSE]
    ELSE LET currentIndex == LowestF(run.heap, run.openSet, 2, 1)
             current == run.openSet[currentIndex]
             closed2 == run.closedSet \cup {run.heap[current].id}
             after == ExamineNeighbors(run.heap, Splice(run.openSet, currentIndex), closed2,
                                       current, t, 1)
         IN IF run.heap[current].id = run.heap[t].id
            THEN [run EXCEPT !.returned = TRUE, !.found = TRUE,
                             !.walk = reconstructPath(run.heap, current)]
            ELSE [run EXCEPT !.heap = after.heap, !.openSet = after.openSet,
                             !.closedSet = closed2]

\* n passes of the loop, one after the other: the first half, then the rest
RECURSIVE aStarPasses(_, _, _)
aStarPasses(run, t, n) ==
    IF run.returned \/ n = 0 THEN run
    ELSE IF n = 1 THEN aStarPass(run, t)
    ELSE aStarPasses(aStarPasses(run, t, n \div 2), t, n - n \div 2)

\* the while loop of aStar from one test of its condition to its return.  A
\* pass that does not return puts one more id into the closed set, so the
\* loop makes at most one pass per node object and one more.
aStarLoop(heap, open, closed, t) ==
    LET run == aStarPasses([returned |-> FALSE, found |-> FALSE, heap |-> heap,
                            openSet |-> open, closedSet |-> closed,
                            walk |-> [ends |-> TRUE, path |-> <<>>]],
                           t, Len(heap) + 1)
    IN [found |-> run.found, heap |-> run.heap, walk |-> run.walk]

\* aStar(start, goal, graph), run from entry to return
aStar(heap, s, t) == aStarLoop(aStarInit(heap, s, t), <<s>>, {}, t)

(* ---------------------------- the state -------------------------------- *)

VARIABLES
    heap,       \* every Node object created so far, in creation order
    nodes,      \* graph.nodes: the Map from id to Node, in iteration order
    pc,         \* "idle", "aStar" (inside the while loop), "diverged"
    call,       \* the arguments of the calculateRoute call in progress or last made
    start,      \* startNode of calculateRoute, start of aStar
    goal,       \* goalNode of calculateRoute, goal of aStar
    openSet,    \* aStar's openSet, an array of node references
    closedSet,  \* aStar's closedSet, a set of ids
    ret,        \* what the last findClosestNode / createGridGraph / calculateRoute returned
    searches,   \* the start and goal node of every calculateRoute call made so far
    tiles,      \* the IndexedDB object store 'map_tiles': records keyed by url
    routes,     \* the IndexedDB object store 'routes', in key order
    tileCache,  \* the service worker's Cache Storage cache TILE_CACHE: responses by request url
    online,     \* the network can be reached
    appCache,   \* the service worker's Cache Storage cache CACHE_VERSION
    routePolyline, \* MapManager's routePolyline: the route shown on the map, or null
    cacheNames, \* caches.keys(): the names of the caches of the origin
    worker,     \* the service worker: its lifecycle state, skipWaiting and clients.claim called
    clickCount, \* clickCount of the map's click handler
    originMarker,      \* MapManager's originMarker, or null
    destinationMarker, \* MapManager's destinationMarker, or null
    loadingOverlay,    \* the loading overlay is displayed
    pending     \* the asynchronous handlers of the page that are in progress

\* the stores of CacheManager and of the service worker, and the network
cacheVars == <<tiles, routes, tileCache, online>>

\* the service worker's cache of resources, the names of all caches, its lifecycle
workerVars == <<appCache, cacheNames, worker>>

\* the markers and the click counter of the map
markerVars == <<clickCount, originMarker, destinationMarker>>

\* the loading overlay and the handlers in progress
overlayVars == <<loadingOverlay, pending>>

\* the service worker's state and the state of the page
shellVars == <<appCache, routePolyline, cacheNames, worker, clickCount, originMarker,
               destinationMarker, loadingOverlay, pending>>

vars == <<heap, nodes, pc, call, start, goal, openSet, closedSet, ret, searches,
          tiles, routes, tileCache, online, appCache, routePolyline, cacheNames, worker,
          clickCount, originMarker, destinationMarker, loadingOverlay, pending>>

\* the names of the two caches of this version of the service worker
CACHE_VERSION == "geocache-v1"
TILE_CACHE == "geocache-tiles-v1"

\* a marker variable of MapManager holding null
NoMarker == [set |-> FALSE, lat |-> 0, lng |-> 0]

\* a service worker that is active and controls the page
ActiveWorker == [state |-> "activated", skipWaiting |-> FALSE, claimed |-> TRUE]

\* the state of the page and of the service worker when a page is loaded
\* that an active service worker controls
PageLoaded ==
    /\ cacheNames = {CACHE_VERSION}
    /\ worker = ActiveWorker
    /\ clickCount = 0
    /\ originMarker = NoMarker
    /\ destinationMarker = NoMarker
    /\ loadingOverlay = FALSE
    /\ pending = {}

Graph == [heap |-> heap, nodes |-> nodes]

NoRet == [op |-> "none"]
NoCall == [op |-> "none"]

\* the positions handed to findClosestNode
QueryPositions == {<<0, 1>>, <<2, 2>>, <<NaN, 0>>}

\* the origins and destinations handed to calculateRoute
RoutePositions == {<<0, 0>>, <<0, 1>>, <<0, 2>>, <<2, 2>>, <<0, 4>>}

\* the grid centres (on the equator) and the halves of the lattice step
Centers == {<<0, 0>>}
HalfSteps == {0, 1}

\* the arguments handed to createGridGraph: radiusKm / 111 is a multiple of
\* 2 * gridSize hundredths of a degree, so that the step and the half radius
\* are whole numbers
GridArgs ==
    {<<c, IF n > 0 THEN 2 * k * n ELSE 2 * k, n>> :
        c \in Centers, k \in HalfSteps, n \in (0 - 1)..MaxGrid}

\* the number of edges added so far: each addEdge adds two neighbor entries
RECURSIVE EntryCount(_, _)
EntryCount(h, k) == IF k > Len(h) THEN 0 ELSE Len(h[k].neighbors) + EntryCount(h, k + 1)

EdgeCount == EntryCount(heap, 1) \div 2

\* the ids stored in the graph
StoredIds == {nodes[k].key : k \in 1..Len(nodes)}

\* the locals of a finished search are dead: every other operation drops them
DropLocals ==
    /\ call' = NoCall
    /\ start' = Null
    /\ goal' = Null
    /\ openSet' = <<>>
    /\ closedSet' = {}

\* MapManager's routePolyline before a route is drawn: null
NoPolyline == [drawn |-> FALSE, latLngs |-> <<>>]

\* the state around a graph G on which nothing has been called yet
InitWith(G) ==
    /\ heap = G.heap
    /\ nodes = G.nodes
    /\ pc = "idle"
    /\ call = NoCall
    /\ start = Null
    /\ goal = Null
    /\ openSet = <<>>
    /\ closedSet = {}
    /\ ret = NoRet
    /\ searches = <<>>
    /\ tiles = {}
    /\ routes = <<>>
    /\ tileCache = {}
    /\ online = TRUE
    /\ appCache = {}
    /\ routePolyline = NoPolyline
    /\ PageLoaded

\* new Graph()
Init == InitWith(NewGraph)

(* ---------------------------- the actions ------------------------------ *)

\* graph.addNode(lat, lng, id)
AddNode(p, id) ==
    /\ pc = "idle"
    /\ Len(heap) < MaxNodes
    /\ LET G == addNode(Graph, p[1], p[2], id)
       IN /\ heap' = G.heap
          /\ nodes' = G.nodes
    /\ ret' = NoRet
    /\ DropLocals
    /\ UNCHANGED <<pc, searches>>
    /\ UNCHANGED cacheVars
    /\ UNCHANGED shellVars

\* graph.addEdge(nodeId1, nodeId2)
AddEdge(id1, id2) ==
    /\ pc = "idle"
    /\ EdgeCount < MaxEdges
    /\ LET G == addEdge(Graph, id1, id2)
       IN /\ heap' = G.heap
          /\ nodes' = G.nodes
    /\ ret' = NoRet
    /\ DropLocals
    /\ UNCHANGED <<pc, searches>>
    /\ UNCHANGED cacheVars
    /\ UNCHANGED shellVars

\* graph.createGridGraph(center, radiusKm, gridSize)
CreateGridGraph(center, radius, gridSize) ==
    /\ pc = "idle"
    /\ Len(heap) < MaxNodes
    /\ gridSize <= MaxGrid
    /\ LET G == createGridGraph(Graph, center, radius, gridSize)
       IN /\ heap' = G.heap
          /\ nodes' = G.nodes
    /\ ret' = [op |-> "createGridGraph", center |-> center, radius |-> radius,
               gridSize |-> gridSize]
    /\ DropLocals
    /\ UNCHANGED <<pc, searches>>
    /\ UNCHANGED cacheVars
    /\ UNCHANGED shellVars

\* graph.findClosestNode(lat, lng)
FindClosestNode(p) ==
    /\ pc = "idle"
    /\ ret' = [op |-> "findClosestNode", lat |-> p[1], lng |-> p[2],
               value |-> findClosestNode(Graph, p[1], p[2])]
    /\ DropLocals
    /\ UNCHANGED <<heap, nodes, pc, searches>>
    /\ UNCHANGED cacheVars
    /\ UNCHANGED shellVars

\* a failure that keeps a path: a result that mixes the two shapes
FailureWithPath(message) ==
    [op |-> "calculateRoute", success |-> FALSE, error |-> message, path |-> <<>>]

\* every failure reported as 'No path found'
FailureNoPath(message) ==
    [op |-> "calculateRoute", success |-> FALSE, error |-> "No path found"]

\* the result object of a failed calculateRoute
Failure(message) == [op |-> "calculateRoute", success |-> FALSE, error |-> message]

\* the sum of the haversine distances of the consecutive points of a path
RECURSIVE TotalDistance(_, _)
TotalDistance(path, i) ==
    IF i > Len(path) THEN 0
    ELSE haversineDistance(path[i - 1].lat, path[i - 1].lng, path[i].lat, path[i].lng)
         + TotalDistance(path, i + 1)

\* the average speed of the time estimate, km/h
AVERAGE_SPEED_KMH == 50

\* Math.round((totalDistance / AVERAGE_SPEED_KMH) * 60), totalDistance in metres here
EstimatedMinutes(totalDistance) ==
    IF IsNaN(totalDistance) THEN NaN
    ELSE (2 * 60 * totalDistance + 1000 * AVERAGE_SPEED_KMH)
             \div (2 * 1000 * AVERAGE_SPEED_KMH)

\* a number below 100 as two digits
TwoDigits(n) == IF n < 10 THEN "0" \o ToString(n) ELSE ToString(n)

\* totalDistance.toFixed(2), totalDistance in metres here: the nearest
\* hundredth of a kilometre.  For a whole number of metres that ends in 5 the
\* two hundredths are equally near and the larger one is taken here; toFixed
\* takes the one nearer to the double, which lies a little off such a value.
ToFixed2(totalDistance) ==
    LET n == (totalDistance + 5) \div 10
    IN ToString(n \div 100) \o "." \o TwoDigits(n % 100)

\* a switch to kilometres only above 1 km: totalDistance <= 1
DistanceTextAtMost(totalDistance) ==
    IF IsNaN(totalDistance) THEN "NaN km"
    ELSE IF totalDistance <= 1000 THEN ToString(totalDistance) \o " m"
    ELSE ToFixed2(totalDistance) \o " km"

\* the distanceText of calculateRoute's result: totalDistance < 1 ? `${Math.round(totalDistance * 1000)} m`
\* : `${totalDistance.toFixed(2)} km`, totalDistance in metres here
DistanceText(totalDistance) ==
    IF IsNaN(totalDistance) THEN "NaN km"
    ELSE IF totalDistance < 1000 THEN ToString(totalDistance) \o " m"
    ELSE ToFixed2(totalDistance) \o " km"

\* the distanceText of createDirectPath's result: distance < 1 ?
\* `${Math.round(distance * 1000)} m` : `${distance.toFixed(2)} km`
DirectDistanceText(distance) ==
    IF IsNaN(distance) THEN "NaN km"
    ELSE IF distance < 1000 THEN ToString(distance) \o " m"
    ELSE ToFixed2(distance) \o " km"

\* the durationText of a result
DurationText(estimatedMinutes) ==
    IF IsNaN(estimatedMinutes) THEN "NaNh NaNm"
    ELSE IF estimatedMinutes < 60 THEN ToString(estimatedMinutes) \o " min"
    ELSE ToString(estimatedMinutes \div 60) \o "h " \o ToString(estimatedMinutes % 60) \o "m"

\* the result object of a successful calculateRoute
Success(path) ==
    LET totalDistance == TotalDistance(path, 2)
        estimatedMinutes == EstimatedMinutes(totalDistance)
    IN [op |-> "calculateRoute", success |-> TRUE, path |-> path,
        distance |-> totalDistance, distanceText |-> DistanceText(totalDistance),
        duration |-> estimatedMinutes, durationText |-> DurationText(estimatedMinutes)]

\* a null origin or destination
NullPoint == <<>>

\* the message of the TypeError that reading .lat of null throws
TypeErrorMessage == "Cannot read properties of null (reading 'lat')"

\* a faulty entry: a call is taken up while a search is between two passes
EntersDuringSearch(p) == p \in {"idle", "aStar"}

\* the body of calculateRoute holds no await and runs on the one thread of
\* the page: once entered it runs to its return, and a call is taken up
\* only when no other is under way
EntersWhenIdle(p) == p = "idle"

\* Pathfinder.calculateRoute(origin, destination, graph) up to the first test
\* of aStar's loop condition: the two findClosestNode calls, the throw of
\* 'Could not find route nodes', and aStar's initialisation
CalculateRoute(origin, destination) ==
    /\ EntersWhenIdle(pc)
    /\ Len(searches) < MaxSearches
    /\ call' = [op |-> "calculateRoute", origin |-> origin, destination |-> destination]
    /\ LET thrown == origin = NullPoint \/ destination = NullPoint
           startNode == IF thrown THEN Null
                        ELSE findClosestNode(Graph, origin[1], origin[2])
           goalNode == IF thrown THEN Null
                       ELSE findClosestNode(Graph, destination[1], destination[2])
       IN /\ start' = startNode
          /\ goal' = goalNode
          /\ searches' = Append(searches, [start |-> startNode, goal |-> goalNode])
          /\ closedSet' = {}
          /\ IF thrown
             THEN /\ ret' = Failure(TypeErrorMessage)
                  /\ openSet' = <<>>
                  /\ UNCHANGED <<heap, pc>>
             ELSE IF startNode = Null \/ goalNode = Null
             THEN /\ ret' = Failure("Could not find route nodes")
                  /\ openSet' = <<>>
                  /\ UNCHANGED <<heap, pc>>
             ELSE /\ heap' = aStarInit(heap, startNode, goalNode)
                  /\ openSet' = <<startNode>>
                  /\ pc' = "aStar"
                  /\ ret' = NoRet
    /\ UNCHANGED nodes
    /\ UNCHANGED cacheVars
    /\ UNCHANGED shellVars

\* the loop of aStar is left with the open set empty: aStar returns null and
\* calculateRoute throws and catches 'No path found'
AStarNoPath ==
    /\ pc = "aStar"
    /\ ~OpenSetNotEmpty(openSet)
    /\ ret' = Failure("No path found")
    /\ pc' = "idle"
    /\ UNCHANGED <<heap, nodes, call, start, goal, openSet, closedSet, searches>>
    /\ UNCHANGED cacheVars
    /\ UNCHANGED shellVars

\* one iteration of aStar's loop in which the node taken is the goal:
\* reconstructPath, then the rest of calculateRoute; or reconstructPath never returns
AStarGoal ==
    /\ pc = "aStar"
    /\ OpenSetNotEmpty(openSet)
    /\ LET current == openSet[LowestF(heap, openSet, 2, 1)]
       IN /\ heap[current].id = heap[goal].id
          /\ LET walk == reconstructPath(heap, current)
             IN IF walk.ends
                THEN /\ ret' = Success(walk.path)
                     /\ pc' = "idle"
                ELSE /\ ret' = NoRet
                     /\ pc' = "diverged"
    /\ UNCHANGED <<heap, nodes, call, start, goal, openSet, closedSet, searches>>
    /\ UNCHANGED cacheVars
    /\ UNCHANGED shellVars

\* one iteration of aStar's loop in which the node taken is not the goal:
\* it moves from the open to the closed set and its neighbors are examined
AStarExpand ==
    /\ pc = "aStar"
    /\ OpenSetNotEmpty(openSet)
    /\ LET currentIndex == LowestF(heap, openSet, 2, 1)
           current == openSet[currentIndex]
           closed == closedSet \cup {heap[current].id}
           after == ExamineNeighbors(heap, Splice(openSet, currentIndex), closed,
                                     current, goal, 1)
       IN /\ heap[current].id # heap[goal].id
          /\ closedSet' = closed
          /\ heap' = after.heap
          /\ openSet' = after.openSet
    /\ UNCHANGED <<nodes, pc, call, start, goal, ret, searches>>
    /\ UNCHANGED cacheVars
    /\ UNCHANGED shellVars


(* ----------------------- the graph-building API ------------------------ *)

NextGraph ==
    \/ \E p \in Positions, id \in {NoId} \cup Ids : AddNode(p, id)
    \/ \E id1, id2 \in StoredIds \cup Ids : AddEdge(id1, id2)
    \/ \E a \in GridArgs : CreateGridGraph(a[1], a[2], a[3])
    \/ \E p \in QueryPositions : FindClosestNode(p)

\* a graph under construction and lookup: new Graph(), then any calls of
\* addNode, addEdge, createGridGraph and findClosestNode
SpecGraph == Init /\ [][NextGraph]_vars

(* ------------------------ searching a built graph ---------------------- *)

\* the addNode calls that start every searched graph, in call order
BaseNodes ==
    << <<0, 0, NoId>>, <<0, 2, NoId>>, <<2, 2, NoId>>, <<0, 4, "a">> >>

\* the ids of those nodes
BaseIds == [k \in 1..Len(BaseNodes) |-> Node(BaseNodes[k][1], BaseNodes[k][2], BaseNodes[k][3]).id]

\* the addEdge calls a build script chooses among, in call order
EdgeCalls ==
    << <<1, 2>>, <<1, 3>>, <<1, 4>>, <<2, 3>>, <<2, 4>>, <<3, 4>> >>

\* the addNode calls that add a stored id again: id "a" at a new position,
\* and the default id of position (0, 2) once more
ReAdds == { <<0, 1, "a">>, <<0, 2, NoId>> }

RECURSIVE AddNodes(_, _, _)
AddNodes(G, ns, k) ==
    IF Computed(G) /\ k > Len(ns) THEN G
    ELSE AddNodes(addNode(G, ns[k][1], ns[k][2], ns[k][3]), ns, k + 1)

\* the addEdge calls whose numbers are in E, in call order
RECURSIVE AddEdges(_, _, _)
AddEdges(G, E, k) ==
    IF Computed(G) /\ k > Len(EdgeCalls) THEN G
    ELSE AddEdges(IF k \in E
                  THEN addEdge(G, BaseIds[EdgeCalls[k][1]], BaseIds[EdgeCalls[k][2]])
                  ELSE G,
                  E, k + 1)

EdgeChoices(max) == {E \in SUBSET (1..Len(EdgeCalls)) : Cardinality(E) <= max}

\* graphs in which every id was added once
PlainGraphs ==
    {AddEdges(AddNodes(NewGraph, BaseNodes, 1), E, 1) : E \in EdgeChoices(MaxBuiltEdges)}

\* graphs in which an id was added a second time, between two rounds of addEdge
ReAddGraphs ==
    {AddEdges(addNode(AddEdges(AddNodes(NewGraph, BaseNodes, 1), E1, 1), r[1], r[2], r[3]), E2, 1) :
        E1 \in EdgeChoices(MaxReAddEdges), r \in ReAdds, E2 \in EdgeChoices(MaxReAddEdges)}

\* grid graphs
GridGraphs ==
    {createGridGraph(NewGraph, <<0, 2>>, 2 * n, n) : n \in 2..MaxGrid}

\* a graph with a detour: from (0, 0) the node (0.02, 0) is reached through
\* (0, 0.01), which lies towards (0, 0.04), and more cheaply through (0.01, 0)
DetourNodes ==
    << <<0, 0, NoId>>, <<0, 1, NoId>>, <<1, 0, NoId>>, <<2, 0, NoId>>, <<0, 4, NoId>> >>

DetourIds ==
    [k \in 1..Len(DetourNodes) |-> Node(DetourNodes[k][1], DetourNodes[k][2], DetourNodes[k][3]).id]

DetourEdges == << <<1, 2>>, <<1, 3>>, <<2, 4>>, <<3, 4>>, <<4, 5>> >>

RECURSIVE AddDetourEdges(_, _)
AddDetourEdges(G, k) ==
    IF Computed(G) /\ k > Len(DetourEdges) THEN G
    ELSE AddDetourEdges(addEdge(G, DetourIds[DetourEdges[k][1]], DetourIds[DetourEdges[k][2]]),
                        k + 1)

DetourGraphs == {AddDetourEdges(AddNodes(NewGraph, DetourNodes, 1), 1)}

\* the graphs handed to calculateRoute: each is the result of a script of
\* addNode, addEdge and createGridGraph calls on a new Graph()
BuiltGraphs == {NewGraph} \cup PlainGraphs \cup ReAddGraphs \cup GridGraphs \cup DetourGraphs

InitSearch == \E G \in BuiltGraphs : InitWith(G)

NextSearch ==
    \/ \E o, d \in RoutePositions : CalculateRoute(o, d)
    \/ AStarNoPath
    \/ AStarGoal
    \/ AStarExpand

\* calculateRoute called again and again with one built graph
SpecSearch == InitSearch /\ [][NextSearch]_vars

(* ------------------- properties of the route search -------------------- *)

\* no id was added twice: every Node object ever created is the one stored under its id
NoReAdd == Len(heap) = Len(nodes)

\* the position of node object r
PositionOf(h, r) == [lat |-> h[r].lat, lng |-> h[r].lng]

\* object u lists object v as a neighbor: an edge declared by addEdge
Lists(h, u, v) == \E k \in 1..Len(h[u].neighbors) : h[u].neighbors[k] = v

Least(S) == CHOOSE x \in S : \A y \in S : x <= y

\* the cost of the cheapest walk along declared edges from one node object to
\* every other, by rounds of relaxation; Infinity where there is none
RECURSIVE Relaxed(_, _, _)
Relaxed(h, d, rounds) ==
    IF rounds = 0 THEN d
    ELSE LET d2 == [v \in 1..Len(h) |->
                       Least({d[v]} \cup
                             {d[u] + distanceTo(h[u], h[v]) :
                                 u \in {w \in 1..Len(h) : d[w] # Infinity /\ Lists(h, w, v)}})]
         IN IF d2 = d THEN d ELSE Relaxed(h, d2, rounds - 1)

CheapestFrom(h, s) ==
    Relaxed(h, [v \in 1..Len(h) |-> IF v = s THEN 0 ELSE Infinity], Len(h))

CheapestCost(h, s, t) == CheapestFrom(h, s)[t]

\* a sequence of declared edges connects s to t
Connected(h, s, t) == CheapestCost(h, s, t) # Infinity

\* the node objects a sequence of declared edges connects s to
Reachable(h, s) == {v \in 1..Len(h) : CheapestFrom(h, s)[v] # Infinity}

\* every scratch field as the Node constructor leaves it
Fresh(h) == [k \in 1..Len(h) |-> [h[k] EXCEPT !.g = 0, !.h = 0, !.f = 0, !.parent = Null]]

\* what calculateRoute returns for startNode s and goalNode t on heap h
RouteOn(h, s, t) ==
    LET run == aStar(h, s, t)
    IN IF run.found THEN Success(run.walk.path) ELSE Failure("No path found")

\* a calculateRoute call that ran aStar has returned
Returned == pc = "idle" /\ ret.op = "calculateRoute" /\ start # Null /\ goal # Null

\* the first search of the graph has returned a path
FirstSearchReturned == Returned /\ Len(searches) = 1 /\ ret.success

\* the points of a path are joined, one to the next, by declared edges
FollowsEdges(h, path) ==
    \A i \in 1..(Len(path) - 1) :
        \E u, v \in 1..Len(h) :
            /\ PositionOf(h, u) = path[i]
            /\ PositionOf(h, v) = path[i + 1]
            /\ Lists(h, u, v)

C2_SecondSearchAsFresh ==
    (/\ Returned /\ Len(searches) = 2
     /\ searches[1].start # Null /\ searches[1].goal # Null
     /\ searches[1].start # start /\ searches[1].goal # goal)
    => ret = RouteOn(Fresh(heap), start, goal)

\* C3: every search comes to an end, the parent walk of reconstructPath included.
C3_SearchEnds == pc # "diverged"

C5_SameNodeSinglePoint ==
    (Returned /\ start = goal) =>
        (ret.success /\ ret.path = <<PositionOf(heap, start)>>)

GridBuiltOnEmpty(n) ==
    /\ pc = "idle"
    /\ ret.op = "createGridGraph"
    /\ ret.gridSize = n
    /\ n >= 1
    /\ Len(heap) = n * n

\* the neighbor counts of an 8-connected n x n lattice clipped at its boundary
LatticeDegree(n, i, j) ==
    LET rowEnd == i = 0 \/ i = n - 1
        colEnd == j = 0 \/ j = n - 1
    IN IF rowEnd /\ colEnd THEN 3
       ELSE IF rowEnd \/ colEnd THEN 5
       ELSE 8

\* n * n nodes with the ids "i,j", and the lattice's neighbor counts
GridShape(n) ==
    /\ Len(nodes) = n * n
    /\ StoredIds = {GridId(i, j) : i \in 0..(n - 1), j \in 0..(n - 1)}
    /\ \A i \in 0..(n - 1), j \in 0..(n - 1) :
          LET r == getNode(Graph, GridId(i, j))
          IN /\ r # Null
             /\ Len(heap[r].neighbors) = LatticeDegree(n, i, j)
             /\ Cardinality({heap[r].neighbors[k] : k \in 1..Len(heap[r].neighbors)})
                    = LatticeDegree(n, i, j)

\* C7: for every grid size n >= 2, building a grid on an empty graph produces
\* exactly n * n nodes with the ids "i,j" (0 <= i, j < n); every interior node
\* has 8 neighbors, every boundary node that is not a corner 5, every corner 3.
C7_GridShape == \A n \in 2..MaxGrid : GridBuiltOnEmpty(n) => GridShape(n)

\* C7 as first stated, for every grid size n >= 1
C7_GridShapeFromOne == \A n \in 1..MaxGrid : GridBuiltOnEmpty(n) => GridShape(n)

\* a 3 x 3 grid, with an interior node, boundary nodes and corners, has been built
C7_Witness == GridBuiltOnEmpty(3) /\ ret.radius > 0

\* C8: the lattice is centred: along each axis the offset of the first row or
\* column from the centre is the opposite of the offset of the last.
C8_Centred ==
    \A n \in 1..MaxGrid :
        GridBuiltOnEmpty(n) =>
            LET first == heap[getNode(Graph, GridId(0, 0))]
                last == heap[getNode(Graph, GridId(n - 1, n - 1))]
            IN /\ first.lat - ret.center[1] = 0 - (last.lat - ret.center[1])
               /\ first.lng - ret.center[2] = 0 - (last.lng - ret.center[2])

\* C9: createGridGraph with gridSize <= 0 adds no node and no edge, and returns.
C9_NothingForNonPositive ==
    [][\A a \in GridArgs :
          (a[3] <= 0 /\ CreateGridGraph(a[1], a[2], a[3])) =>
              (heap' = heap /\ nodes' = nodes /\ ret'.op = "createGridGraph")]_vars

\* createGridGraph with gridSize <= 0 has returned on a graph with nodes and an edge
C9_Witness ==
    /\ ret.op = "createGridGraph"
    /\ ret.gridSize <= 0
    /\ Len(nodes) >= 2
    /\ EdgeCount >= 1

\* the node objects stored in the Map
StoredRefs == {nodes[k].ref : k \in 1..Len(nodes)}

\* the distance of node object r to the position findClosestNode was last called with
QueryDistance(r) == haversineDistance(ret.lat, ret.lng, heap[r].lat, heap[r].lng)

C11_AddEdgeFrame ==
    [][\A id1, id2 \in StoredIds \cup Ids :
          AddEdge(id1, id2) =>
              LET n1 == getNode(Graph, id1)
                  n2 == getNode(Graph, id2)
              IN /\ nodes' = nodes
                 /\ Len(heap') = Len(heap)
                 /\ (n1 = Null \/ n2 = Null) => heap' = heap
                 /\ (n1 # Null /\ n2 # Null) =>
                       \A r \in 1..Len(heap) :
                          /\ [heap'[r] EXCEPT !.neighbors = heap[r].neighbors] = heap[r]
                          /\ heap'[r].neighbors =
                                 heap[r].neighbors
                                     \o (IF r = n1 THEN <<n2>> ELSE <<>>)
                                     \o (IF r = n2 THEN <<n1>> ELSE <<>>)]_vars

\* addEdge has joined two different stored nodes, each now listing the other once
C11_Witness ==
    /\ ret = NoRet
    /\ \E r1, r2 \in StoredRefs :
          /\ r1 # r2
          /\ heap[r1].neighbors = <<r2>>
          /\ heap[r2].neighbors = <<r1>>

\* the number of entries with id b in the neighbor list of the node stored under id a
EntriesWithId(a, b) ==
    LET u == MapGet(nodes, a)
    IN Cardinality({k \in 1..Len(heap[u].neighbors) : heap[heap[u].neighbors[k]].id = b})

\* C22: after any sequence of addNode and addEdge calls, addNode calls that
\* reuse a stored id included, edges are symmetric between the stored ids:
\* the list of the node stored under a holds as many entries with id b as
\* the list of the node stored under b holds entries with id a.
C22_SymmetricByIds == \A a, b \in StoredIds : EntriesWithId(a, b) = EntriesWithId(b, a)

(* ------------------ properties of the search's steps ------------------- *)

\* C23: a search writes only the scratch fields g, h, f and parent of node
\* objects: every step of calculateRoute and aStar leaves the Map of stored
\* nodes and each node object's id, position and neighbor list as they were,
\* whether the search ends with a path or with none.
C23_OnlyScratchFields == [][nodes' = nodes /\ Fresh(heap') = Fresh(heap)]_vars

\* a search has ended without a path after writing scratch fields
C23_Witness ==
    /\ Returned
    /\ ~ret.success
    /\ \E k \in 1..Len(heap) : heap[k].parent # Null

\* the ids of the nodes in the open set
OpenIds == {heap[openSet[k]].id : k \in 1..Len(openSet)}

\* one pass of aStar's loop that did not return
Pass == pc = "aStar" /\ pc' = "aStar" /\ closedSet' # closedSet

\* C24: at every step of a search no id is both open and closed and the open
\* set holds no id twice.  A pass of the loop closes one id that was open and
\* not closed before, no closed id is opened again, and the passes made so
\* far (one per closed id) and the nodes still open together never exceed
\* the number of nodes of the graph.
C24_OpenAndClosed ==
    /\ [](/\ OpenIds \cap closedSet = {}
          /\ Cardinality(OpenIds) = Len(openSet)
          /\ Cardinality(closedSet) + Len(openSet) <= Len(nodes))
    /\ [][Pass => /\ closedSet \subseteq closedSet'
                  /\ Cardinality(closedSet') = Cardinality(closedSet) + 1
                  /\ closedSet' \ closedSet \subseteq OpenIds
                  /\ OpenIds' \cap closedSet' = {}]_vars

\* a search that has closed two nodes and holds two more open
C24_Witness == pc = "aStar" /\ Cardinality(closedSet) >= 2 /\ Len(openSet) >= 2

\* f of the node at position k of the open set
OpenF(k) == heap[openSet[k]].f

\* the lowest position of the open set that holds the minimum f
FirstLowest ==
    CHOOSE i \in 1..Len(openSet) :
        /\ \A k \in 1..Len(openSet) : OpenF(i) <= OpenF(k)
        /\ \A k \in 1..(i - 1) : OpenF(k) > OpenF(i)

\* one iteration of aStar's loop
Iteration == pc = "aStar" /\ Len(openSet) > 0 /\ (pc' # pc \/ closedSet' # closedSet)

\* C25: in every iteration the node taken from the open set has the minimum
\* f of all open nodes, and of several nodes with that f the one at the
\* lowest position is taken: it is the node that is tested against the goal
\* and, when it is not the goal, removed from the open set and closed.
C25_TakesFirstLowest ==
    [][Iteration =>
          IF pc' = "aStar"
          THEN /\ closedSet' = closedSet \cup {heap[openSet[FirstLowest]].id}
               /\ SubSeq(openSet', 1, Len(openSet) - 1) = Splice(openSet, FirstLowest)
          ELSE heap[openSet[FirstLowest]].id = heap[goal].id]_vars

\* after a pass of the loop, the minimum f is shared by two open nodes
C25_Witness ==
    /\ pc = "aStar"
    /\ closedSet # {}
    /\ Len(openSet) >= 2
    /\ \E k \in (FirstLowest + 1)..Len(openSet) : OpenF(k) = OpenF(FirstLowest)

\* the first search of the graph is under way
FirstSearch == pc = "aStar" /\ Len(searches) = 1

\* node object n is open with its g and parent as a pass of the loop sets them
Relaxation(n) ==
    LET parent == heap[n].parent
    IN /\ parent # Null
       /\ heap[parent].id \in closedSet
       /\ Lists(heap, parent, n)
       /\ heap[n].g = heap[parent].g + distanceTo(heap[parent], heap[n])
       /\ heap[n].h = distanceTo(heap[n], heap[goal])
       /\ heap[n].f = heap[n].g + heap[n].h

\* g or parent of node object n is written in this step
Rewritten(n) == heap'[n].g # heap[n].g \/ heap'[n].parent # heap[n].parent

\* C26: during a search of a graph never searched before, every open node
\* other than start has for parent a closed node that lists it as neighbor,
\* with g = parent.g + distance(parent, node) and f = g + h; and g and parent
\* of an open node are written only with a strictly smaller g (an equal
\* tentative g leaves both as they are).
C26_OpenNodes ==
    /\ [](FirstSearch =>
             \A k \in 1..Len(openSet) : openSet[k] # start => Relaxation(openSet[k]))
    /\ [][FirstSearch =>
             \A k \in 1..Len(openSet) :
                 Rewritten(openSet[k]) => heap'[openSet[k]].g < heap[openSet[k]].g]_vars

\* an open node n was reached from a closed node q and later, more cheaply,
\* from its parent p: q has the lower f, so it was taken before p, and the g
\* that q offers is above the g that n has
C26_Witness ==
    /\ FirstSearch
    /\ \E k \in 1..Len(openSet), q \in 1..Len(heap) :
           LET n == openSet[k]
               p == heap[n].parent
           IN /\ n # start
              /\ Relaxation(n)
              /\ q # p
              /\ heap[q].id \in closedSet
              /\ Lists(heap, q, n)
              /\ heap[q].f < heap[p].f
              /\ heap[q].g + distanceTo(heap[q], heap[n]) > heap[n].g

DefaultGridSize == 15

\* the least radius of the grid calculateRoute builds, km
MinRadiusKm == 5

\* the kilometres createGridGraph and calculateRoute take for one degree
KmPerDegree == 111

\* (a + b) / 2 on coordinates whose sum is even
Midpoint(a, b) == IF IsNaN(a) \/ IsNaN(b) THEN NaN ELSE (a + b) \div 2

Larger(a, b) == IF a >= b THEN a ELSE b

\* Math.max(distance * 1.5, 5), distance in metres here, as the radius
\* createGridGraph works with: radiusKm / 111 in hundredths of a degree, taken
\* to the nearest multiple (at least one) of 2 * gridSize, so that the half
\* radius and the lattice step are whole numbers.  Math.max of NaN is NaN.
RouteRadius(distance) ==
    IF IsNaN(distance) THEN NaN
    ELSE LET radiusMetres == Larger((3 * distance) \div 2, 1000 * MinRadiusKm)
             lattice == 2 * DefaultGridSize
             unit == lattice * 10 * KmPerDegree
         IN lattice * Larger(1, (radiusMetres + unit \div 2) \div unit)

\* the graph calculateRoute builds when it is handed none
DefaultGraph(origin, destination) ==
    LET centerLat == Midpoint(origin[1], destination[1])
        centerLng == Midpoint(origin[2], destination[2])
        distance == haversineDistance(origin[1], origin[2], destination[1], destination[2])
        radius == RouteRadius(distance)
    IN createGridGraph(NewGraph, <<centerLat, centerLng>>, radius, DefaultGridSize)

\* calculateRoute(origin, destination) with no graph argument, from entry to
\* return: the TypeError of a null argument is caught like the two throws
calculateRouteDefault(origin, destination) ==
    IF origin = NullPoint \/ destination = NullPoint THEN Failure(TypeErrorMessage)
    ELSE LET G == DefaultGraph(origin, destination)
             startNode == findClosestNode(G, origin[1], origin[2])
             goalNode == findClosestNode(G, destination[1], destination[2])
         IN IF Computed(G) /\ (startNode = Null \/ goalNode = Null)
            THEN Failure("Could not find route nodes")
            ELSE RouteOn(G.heap, startNode, goalNode)

\* the result of createDirectPath(origin, destination); reading .lat of a null
\* argument throws a TypeError that nothing catches
createDirectPath(origin, destination) ==
    IF origin = NullPoint \/ destination = NullPoint
    THEN [op |-> "createDirectPath", thrown |-> TypeErrorMessage]
    ELSE LET distance == haversineDistance(origin[1], origin[2],
                                           destination[1], destination[2])
             estimatedMinutes == EstimatedMinutes(distance)
         IN [op |-> "createDirectPath", success |-> TRUE,
             path |-> <<[lat |-> origin[1], lng |-> origin[2]],
                        [lat |-> destination[1], lng |-> destination[2]]>>,
             distance |-> distance, distanceText |-> DirectDistanceText(distance),
             duration |-> estimatedMinutes, durationText |-> DurationText(estimatedMinutes)]

\* the origins and destinations of the calls without a graph: points a few
\* hundredths of a degree apart near the equator (their sums even, so that the
\* centre is a whole number), a point with a NaN coordinate, null, and the
\* antipodal pair
WindowPoints == {<<0, 0>>, <<0, 6>>, <<0, 20>>, <<2, 0>>, <<2, 6>>, <<2, 20>>}
NaNPoint == <<NaN, 0>>
RouteCalls ==
    ((WindowPoints \cup {NaNPoint, NullPoint}) \X (WindowPoints \cup {NaNPoint, NullPoint}))
        \cup {<<FarNorth, FarSouth>>, <<FarSouth, FarNorth>>}

\* the call Pathfinder.calculateRoute(origin, destination) of an async function:
\* the caller holds a promise until the result is delivered
CallCalculateRoute(origin, destination) ==
    /\ pc = "idle"
    /\ call' = [op |-> "calculateRoute", origin |-> origin, destination |-> destination,
                graph |-> Null]
    /\ ret' = NoRet
    /\ pc' = "calculateRoute"
    /\ start' = Null
    /\ goal' = Null
    /\ openSet' = <<>>
    /\ closedSet' = {}
    /\ UNCHANGED <<heap, nodes, searches>>
    /\ UNCHANGED cacheVars
    /\ UNCHANGED shellVars

\* the body of calculateRoute(origin, destination) without a graph: the graph
\* is built, searched and dropped inside the call
CalculateRouteNoGraph ==
    /\ pc = "calculateRoute"
    /\ ret' = calculateRouteDefault(call.origin, call.destination)
    /\ pc' = "idle"
    /\ UNCHANGED <<heap, nodes, call, start, goal, openSet, closedSet, searches>>
    /\ UNCHANGED cacheVars
    /\ UNCHANGED shellVars

\* Pathfinder.createDirectPath(origin, destination)
CreateDirectPath(origin, destination) ==
    /\ pc = "idle"
    /\ call' = [op |-> "createDirectPath", origin |-> origin, destination |-> destination]
    /\ ret' = createDirectPath(origin, destination)
    /\ start' = Null
    /\ goal' = Null
    /\ openSet' = <<>>
    /\ closedSet' = {}
    /\ UNCHANGED <<heap, nodes, pc, searches>>
    /\ UNCHANGED cacheVars
    /\ UNCHANGED shellVars

\* the origins and destinations handed to calculateRoute with a graph and to
\* createDirectPath
SuppliedPoints == {<<0, 0>>, <<0, 4>>, NaNPoint, NullPoint}
DirectCalls == (SuppliedPoints \X SuppliedPoints) \cup {<<FarNorth, FarSouth>>}

\* the graphs handed to calculateRoute: the empty graph and the four base
\* nodes with no edge, with one edge, and joined in a chain
RouteGraphs ==
    {NewGraph} \cup
    {AddEdges(AddNodes(NewGraph, BaseNodes, 1), E, 1) : E \in {{}, {1}, {1, 4, 6}}}

InitRoute == \E G \in RouteGraphs : InitWith(G)

NextRoute ==
    \/ \E o, d \in SuppliedPoints : CalculateRoute(o, d)
    \/ AStarNoPath
    \/ AStarGoal
    \/ AStarExpand
    \/ \E c \in DirectCalls : CreateDirectPath(c[1], c[2])

\* calculateRoute on a graph the caller supplies, and createDirectPath, called
\* again and again
SpecRoute == InitRoute /\ [][NextRoute]_vars

InitDefault == InitWith(NewGraph)

NextDefault ==
    \/ \E c \in RouteCalls : CallCalculateRoute(c[1], c[2])
    \/ CalculateRouteNoGraph

\* calculateRoute without a graph, as the application calls it, again and again
SpecDefault == InitDefault /\ [][NextDefault]_vars

(* ------------------------- the distance text --------------------------- *)

\* the largest distance, in metres, that is put into words
MaxMetres == 2100

\* the distances put into words: whole metres, but for those above 1 km that
\* lie midway between two hundredths of a kilometre
TextDistances == {d \in 0..MaxMetres : d < 1000 \/ d % 10 # 5}

\* calculateRoute or createDirectPath has arrived at its return statement with
\* a distance drawn from TextDistances
InitText ==
    /\ \E d \in TextDistances : call = [op |-> "distanceText", distance |-> d]
    /\ heap = <<>>
    /\ nodes = <<>>
    /\ pc = "idle"
    /\ start = Null
    /\ goal = Null
    /\ openSet = <<>>
    /\ closedSet = {}
    /\ ret = NoRet
    /\ searches = <<>>
    /\ tiles = {}
    /\ routes = <<>>
    /\ tileCache = {}
    /\ online = TRUE
    /\ appCache = {}
    /\ routePolyline = NoPolyline
    /\ PageLoaded

\* the distanceText expression in the return statement of calculateRoute
RouteDistanceWords ==
    /\ call.op = "distanceText"
    /\ ret' = [op |-> "distanceText", by |-> "calculateRoute",
               text |-> DistanceText(call.distance)]
    /\ UNCHANGED <<heap, nodes, pc, call, start, goal, openSet, closedSet, searches>>
    /\ UNCHANGED cacheVars
    /\ UNCHANGED shellVars

\* the distanceText expression in the return statement of createDirectPath
DirectDistanceWords ==
    /\ call.op = "distanceText"
    /\ ret' = [op |-> "distanceText", by |-> "createDirectPath",
               text |-> DirectDistanceText(call.distance)]
    /\ UNCHANGED <<heap, nodes, pc, call, start, goal, openSet, closedSet, searches>>
    /\ UNCHANGED cacheVars
    /\ UNCHANGED shellVars

NextText == RouteDistanceWords \/ DirectDistanceWords

\* the two distanceText expressions applied to every distance of TextDistances
SpecText == InitText /\ [][NextText]_vars

\* a whole number as decimal digits, most significant first
RECURSIVE Digits(_)
Digits(n) == IF n < 10 THEN <<n>> ELSE Append(Digits(n \div 10), n % 10)

DigitText(k) == <<"0", "1", "2", "3", "4", "5", "6", "7", "8", "9">>[k + 1]

RECURSIVE Spelled(_, _)
Spelled(digits, i) ==
    IF i > Len(digits) THEN "" ELSE DigitText(digits[i]) \o Spelled(digits, i + 1)

\* the hundredth of a kilometre nearest to d metres
NearestHundredth(d) == CHOOSE n \in 0..((d \div 10) + 1) :
    \A k \in 0..((d \div 10) + 1) :
        (IF 10 * n >= d THEN 10 * n - d ELSE d - 10 * n)
            <= (IF 10 * k >= d THEN 10 * k - d ELSE d - 10 * k)

\* C17: the distance text switches from metres to kilometres at exactly 1 km:
\* a distance below 1 km is written as its rounded metres followed by ' m', a
\* distance of 1 km or more (1 km itself as '1.00 km') as kilometres with two
\* decimals followed by ' km'; calculateRoute and createDirectPath write the
\* same text for the same distance.
C17_DistanceTextRule ==
    ret.op = "distanceText" =>
        LET d == call.distance
            n == NearestHundredth(d)
        IN /\ d < 1000 => ret.text = Spelled(Digits(d), 1) \o " m"
           /\ d >= 1000 =>
                ret.text = Spelled(Digits(n \div 100), 1) \o "."
                               \o DigitText((n % 100) \div 10) \o DigitText(n % 10) \o " km"
           /\ d = 1000 => ret.text = "1.00 km"
           /\ d = 999 => ret.text = "999 m"
           /\ ret.text = DistanceText(d)
           /\ ret.text = DirectDistanceText(d)

C17_Witness ==
    /\ ret.op = "distanceText"
    /\ ret.by = "createDirectPath"
    /\ call.distance = 1000
    /\ ret.text = "1.00 km"

(* ---------------- the distance text, to a tenth of a metre ------------- *)

\* the largest distance, in tenths of a metre, that is put into words
MaxTenths == 10100

\* Math.round(distance * 1000), distance in tenths of a metre here: the
\* nearest whole number of metres, the larger one when two are equally near
RoundMetres(tenths) == (tenths + 5) \div 10

\* distance.toFixed(2), distance in tenths of a metre here
ToFixed2Tenths(tenths) ==
    LET n == (tenths + 50) \div 100
    IN ToString(n \div 100) \o "." \o TwoDigits(n % 100)

\* the distanceText of calculateRoute's result: totalDistance < 1 ?
\* `${Math.round(totalDistance * 1000)} m` : `${totalDistance.toFixed(2)} km`,
\* totalDistance in tenths of a metre here
DistanceTextTenths(totalDistance) ==
    IF totalDistance < 10000 THEN ToString(RoundMetres(totalDistance)) \o " m"
    ELSE ToFixed2Tenths(totalDistance) \o " km"

\* the distanceText of createDirectPath's result: distance < 1 ?
\* `${Math.round(distance * 1000)} m` : `${distance.toFixed(2)} km`
DirectDistanceTextTenths(distance) ==
    IF distance < 10000 THEN ToString(RoundMetres(distance)) \o " m"
    ELSE ToFixed2Tenths(distance) \o " km"

\* the distances put into words: tenths of a metre, but for those of 1 km or
\* more that lie midway between two hundredths of a kilometre
TenthsDistances == {d \in 0..MaxTenths : d < 10000 \/ d % 100 # 50}

\* calculateRoute or createDirectPath has arrived at its return statement with
\* a distance drawn from TenthsDistances
InitTenths ==
    /\ \E d \in TenthsDistances : call = [op |-> "distanceTenths", distance |-> d]
    /\ heap = <<>>
    /\ nodes = <<>>
    /\ pc = "idle"
    /\ start = Null
    /\ goal = Null
    /\ openSet = <<>>
    /\ closedSet = {}
    /\ ret = NoRet
    /\ searches = <<>>
    /\ tiles = {}
    /\ routes = <<>>
    /\ tileCache = {}
    /\ online = TRUE
    /\ appCache = {}
    /\ routePolyline = NoPolyline
    /\ PageLoaded

\* the distanceText expression in the return statement of calculateRoute
RouteDistanceTenths ==
    /\ call.op = "distanceTenths"
    /\ ret' = [op |-> "distanceTenths", by |-> "calculateRoute",
               text |-> DistanceTextTenths(call.distance)]
    /\ UNCHANGED <<heap, nodes, pc, call, start, goal, openSet, closedSet, searches>>
    /\ UNCHANGED cacheVars
    /\ UNCHANGED shellVars

\* the distanceText expression in the return statement of createDirectPath
DirectDistanceTenths ==
    /\ call.op = "distanceTenths"
    /\ ret' = [op |-> "distanceTenths", by |-> "createDirectPath",
               text |-> DirectDistanceTextTenths(call.distance)]
    /\ UNCHANGED <<heap, nodes, pc, call, start, goal, openSet, closedSet, searches>>
    /\ UNCHANGED cacheVars
    /\ UNCHANGED shellVars

NextTenths == RouteDistanceTenths \/ DirectDistanceTenths

\* the two distanceText expressions applied to every distance of TenthsDistances
SpecTenths == InitTenths /\ [][NextTenths]_vars

\* the texts that show a number of metres below 1000
MetreTexts == {ToString(m) \o " m" : m \in 0..999}

\* C35: a distance text in metres shows a number below 1000: the text of a
\* distance below 1 km, written by calculateRoute or by createDirectPath, is
\* one of '0 m' .. '999 m', never '1000 m'.
C35_MetresBelow1000 ==
    (ret.op = "distanceTenths" /\ call.distance < 10000) =>
        /\ ret.text \in MetreTexts
        /\ ret.text # "1000 m"

(* ------------- properties of calculateRoute and createDirectPath ------- *)

\* a latitude and a longitude, in hundredths of a degree
ValidPoint(p) ==
    /\ p # NullPoint
    /\ ~IsNaN(p[1]) /\ ~IsNaN(p[2])
    /\ p[1] >= 0 - 9000 /\ p[1] <= 9000
    /\ p[2] >= 0 - 18000 /\ p[2] <= 18000

\* calculateRoute or createDirectPath has handed something to its caller
Handed == pc = "idle" /\ call.op \in {"calculateRoute", "createDirectPath"}

\* C12: whatever the origin, the destination and the supplied graph are,
\* calculateRoute and createDirectPath hand their caller a result tagged
\* success = true or success = false, and no exception reaches the caller.
C12_AlwaysTagged ==
    Handed => "success" \in DOMAIN ret /\ "thrown" \notin DOMAIN ret

\* the fields of the two result objects of calculateRoute
SuccessFields ==
    {"op", "success", "path", "distance", "distanceText", "duration", "durationText"}
FailureFields == {"op", "success", "error"}

\* C13: every result of calculateRoute is either success = true with a path, a
\* distance and a duration and no error, or success = false with an error
\* message and no path, distance or duration.
C13_TwoShapes ==
    (pc = "idle" /\ ret.op = "calculateRoute") =>
        \/ /\ ret.success = TRUE
           /\ DOMAIN ret = SuccessFields
           /\ Len(ret.path) >= 1
        \/ /\ ret.success = FALSE
           /\ DOMAIN ret = FailureFields
           /\ ret.error \in {"Could not find route nodes", "No path found", TypeErrorMessage}

C13_Witness ==
    /\ pc = "idle" /\ ret.op = "calculateRoute"
    /\ ret.success = TRUE
    /\ Len(ret.path) >= 2

\* calculateRoute has returned from a call with a graph in which it called
\* findClosestNode for the origin and for the destination
ClosestAsked ==
    /\ pc = "idle" /\ ret.op = "calculateRoute"
    /\ call.origin # NullPoint /\ call.destination # NullPoint

\* findClosestNode returned none for the origin or for the destination
NoneClosest ==
    \/ findClosestNode(Graph, call.origin[1], call.origin[2]) = Null
    \/ findClosestNode(Graph, call.destination[1], call.destination[2]) = Null

\* the step of calculateRoute that reports 'Could not find route nodes'
\* leaves every node object as it was and starts no search
NoSearchStarted ==
    (ret'.op = "calculateRoute" /\ ~ret'.success /\ ret'.error = "Could not find route nodes")
        => heap' = heap /\ pc' = "idle" /\ openSet' = <<>> /\ closedSet' = {}

\* C14: calculateRoute on a supplied graph fails with 'Could not find route
\* nodes' exactly when findClosestNode returns none for the origin or the
\* destination, and then no search is started; it fails with 'No path found'
\* exactly when both nodes were found and the search returned none.
C14_FailureMessages ==
    /\ [](ClosestAsked =>
            /\ (~ret.success /\ ret.error = "Could not find route nodes") <=> NoneClosest
            /\ (~ret.success /\ ret.error = "No path found")
                   <=> (~NoneClosest /\ ~aStar(heap, start, goal).found))
    /\ [][NoSearchStarted]_vars

C14_Witness ==
    /\ ClosestAsked
    /\ ~ret.success /\ ret.error = "Could not find route nodes"
    /\ Len(heap) > 0

\* C15: calculateRoute without a graph returns, for every origin and
\* destination with valid coordinates, success = true with a non-empty path.
C15_DefaultRouteSucceeds ==
    (/\ pc = "idle" /\ ret.op = "calculateRoute"
     /\ ValidPoint(call.origin) /\ ValidPoint(call.destination))
        => ret.success /\ Len(ret.path) >= 1

\* C16: in every successful result of calculateRoute the first element of the
\* path is the position of the node findClosestNode returns for the origin
\* and the last element that of the node it returns for the destination.
C16_PathEnds ==
    (Returned /\ ret.success) =>
        /\ ret.path[1] = PositionOf(heap, start)
        /\ ret.path[Len(ret.path)] = PositionOf(heap, goal)

\* C18: createDirectPath returns, for every pair of coordinates, success =
\* true with the path [origin, destination] and a duration that is at least 0.
C18_DirectPath ==
    (/\ pc = "idle" /\ ret.op = "createDirectPath"
     /\ ValidPoint(call.origin) /\ ValidPoint(call.destination))
        => /\ ret.success
           /\ ret.path = <<[lat |-> call.origin[1], lng |-> call.origin[2]],
                           [lat |-> call.destination[1], lng |-> call.destination[2]]>>
           /\ ~IsNaN(ret.duration) /\ ret.duration >= 0

(* ------------------ CacheManager and the service worker ---------------- *)

\* the largest tile column of the modelled map
MaxTile == 1

\* the most routes saved
MaxRoutes == 1

\* the tiles {x, y, z} of the modelled map: one row at one zoom level
TileCoords == {[x |-> x, y |-> 0, z |-> 3] : x \in 0..MaxTile}

\* the url downloadArea builds for a tile:
\* `https://tile.openstreetmap.org/${tile.z}/${tile.x}/${tile.y}.png`
DownloadUrl(tile) == [host |-> "tile.openstreetmap.org", tile |-> tile]

\* the url the map's tile layer requests for a tile, from the template
\* 'https://{s}.tile.openstreetmap.org/{z}/{x}/{y}.png'; Leaflet takes the
\* subdomain s from 'abc' by (x + y) mod 3
LayerUrl(tile) ==
    [host |-> <<"a", "b", "c">>[((tile.x + tile.y) % 3) + 1] \o ".tile.openstreetmap.org",
     tile |-> tile]

\* store.put(data) on an object store with keyPath 'url', and cache.put(request,
\* response): the entry of that url is replaced
Put(store, url, body) == {e \in store : e.url # url} \cup {[url |-> url, body |-> body]}

\* store.get(url), cache.match(request): the entries under that url
Match(store, url) == {e \in store : e.url = url}

\* a faulty handler: network first, the cache only when fetch throws
handleTileRequestNetworkFirst(cache, net, url, ok) ==
    IF net
    THEN [response |-> [ok |-> ok, body |-> IF ok THEN "png" ELSE "error", from |-> "network"],
          cache |-> IF ok THEN Put(cache, url, "png") ELSE cache]
    ELSE IF Match(cache, url) # {}
    THEN [response |-> [ok |-> TRUE, body |-> (CHOOSE e \in Match(cache, url) : TRUE).body,
                        from |-> "cache"],
          cache |-> cache]
    ELSE [response |-> [ok |-> TRUE, body |-> "svg", from |-> "placeholder"], cache |-> cache]

\* handleTileRequest(request) of the service worker: the cached response if
\* there is one; else the network's response, put into the cache when it is
\* ok (ok is the network's answer); else, fetch having thrown, the placeholder
\* tile OFFLINE_TILE_SVG as a response of its own (status 200).  Yields the
\* response and the cache afterwards.
handleTileRequest(cache, net, url, ok) ==
    IF Match(cache, url) # {}
    THEN [response |-> [ok |-> TRUE, body |-> (CHOOSE e \in Match(cache, url) : TRUE).body,
                        from |-> "cache"],
          cache |-> cache]
    ELSE IF net
    THEN [response |-> [ok |-> ok, body |-> IF ok THEN "png" ELSE "error", from |-> "network"],
          cache |-> IF ok THEN Put(cache, url, "png") ELSE cache]
    ELSE [response |-> [ok |-> TRUE, body |-> "svg", from |-> "placeholder"], cache |-> cache]

\* getTilesForBounds(bounds, zoom): the tiles of columns minX..maxX, in order
\* (latLngToTile, which turns the bounds into tile columns, is left out)
RECURSIVE TilesFrom(_, _)
TilesFrom(x, maxX) ==
    IF x > maxX THEN <<>>
    ELSE <<[x |-> x, y |-> 0, z |-> 3]>> \o TilesFrom(x + 1, maxX)

getTilesForBounds(minX, maxX) == TilesFrom(minX, maxX)

\* CacheManager.downloadArea(bounds, zoom) up to its loop
DownloadArea(minX, maxX) ==
    /\ pc = "idle"
    /\ minX <= maxX
    /\ call' = [op |-> "downloadArea", rest |-> getTilesForBounds(minX, maxX),
                total |-> Len(getTilesForBounds(minX, maxX)), cached |-> 0]
    /\ ret' = NoRet
    /\ pc' = "downloadArea"
    /\ UNCHANGED <<heap, nodes, start, goal, openSet, closedSet, searches>>
    /\ UNCHANGED cacheVars
    /\ UNCHANGED shellVars

\* what is thrown inside the try block of the loop: by fetch (a page that no
\* service worker controls, the network down), by saveTile (with
\* response.blob() before it), or nothing
Throws == {"none", "fetch", "saveTile"}

\* a faulty loop body: cached++ for every tile whose fetch returned, ok or not
downloadTileCountsAll(store, cache, net, url, ok, thrown) ==
    IF Match(store, url) # {}
    THEN [tiles |-> store, tileCache |-> cache, counted |-> TRUE, fetched |-> FALSE]
    ELSE IF thrown = "fetch"
    THEN [tiles |-> store, tileCache |-> cache, counted |-> FALSE, fetched |-> FALSE]
    ELSE LET fetched == handleTileRequest(cache, net, url, ok)
         IN IF fetched.response.ok /\ thrown # "saveTile"
            THEN [tiles |-> Put(store, url, fetched.response.body),
                  tileCache |-> fetched.cache, counted |-> TRUE, fetched |-> TRUE]
            ELSE [tiles |-> store, tileCache |-> fetched.cache, counted |-> TRUE,
                  fetched |-> TRUE]

\* the body of downloadArea's loop for one tile: getTile; if the tile is
\* stored, cached++; else fetch, which the service worker answers with
\* handleTileRequest, and for an ok response saveTile and cached++.  What is
\* thrown on the way is caught and logged.  counted says that cached++ ran
downloadTile(store, cache, net, url, ok, thrown) ==
    IF Match(store, url) # {}
    THEN [tiles |-> store, tileCache |-> cache, counted |-> TRUE, fetched |-> FALSE]
    ELSE IF thrown = "fetch"
    THEN [tiles |-> store, tileCache |-> cache, counted |-> FALSE, fetched |-> FALSE]
    ELSE LET fetched == handleTileRequest(cache, net, url, ok)
         IN IF fetched.response.ok /\ thrown # "saveTile"
            THEN [tiles |-> Put(store, url, fetched.response.body),
                  tileCache |-> fetched.cache, counted |-> TRUE, fetched |-> TRUE]
            ELSE [tiles |-> store, tileCache |-> fetched.cache, counted |-> FALSE,
                  fetched |-> TRUE]

\* one pass of downloadArea's loop
DownloadTile ==
    /\ pc = "downloadArea"
    /\ call.rest # <<>>
    /\ \E ok \in BOOLEAN, thrown \in Throws :
         LET passed == downloadTile(tiles, tileCache, online, DownloadUrl(Head(call.rest)),
                                    ok, thrown)
         IN /\ tiles' = passed.tiles
            /\ tileCache' = passed.tileCache
            /\ cacheNames' = IF passed.fetched THEN cacheNames \cup {TILE_CACHE}
                              ELSE cacheNames
            /\ call' = [call EXCEPT !.rest = Tail(@),
                                     !.cached = IF passed.counted THEN @ + 1 ELSE @]
    /\ UNCHANGED <<heap, nodes, pc, start, goal, openSet, closedSet, ret, searches>>
    /\ UNCHANGED <<routes, online>>
    /\ UNCHANGED <<appCache, routePolyline, worker>>
    /\ UNCHANGED markerVars
    /\ UNCHANGED overlayVars

\* downloadArea returns { total, cached }
DownloadReturn ==
    /\ pc = "downloadArea"
    /\ call.rest = <<>>
    /\ ret' = [op |-> "downloadArea", total |-> call.total, cached |-> call.cached]
    /\ pc' = "idle"
    /\ UNCHANGED <<heap, nodes, call, start, goal, openSet, closedSet, searches>>
    /\ UNCHANGED cacheVars
    /\ UNCHANGED shellVars

\* the map's tile layer requests a tile: the fetch event of the service worker
\* and handleTileRequest
TileRequest(tile) ==
    /\ \E ok \in BOOLEAN :
         LET answered == handleTileRequest(tileCache, online, LayerUrl(tile), ok)
         IN /\ tileCache' = answered.cache
            /\ cacheNames' = cacheNames \cup {TILE_CACHE}
            /\ ret' = [op |-> "tileRequest", tile |-> tile, offline |-> ~online,
                       response |-> answered.response]
    /\ UNCHANGED <<heap, nodes, pc, call, start, goal, openSet, closedSet, searches>>
    /\ UNCHANGED <<tiles, routes, online>>
    /\ UNCHANGED <<appCache, routePolyline, worker>>
    /\ UNCHANGED markerVars
    /\ UNCHANGED overlayVars

\* CacheManager.saveRoute(route), as the application calls it with a route found
SaveRoute ==
    /\ pc = "idle"
    /\ Len(routes) < MaxRoutes
    /\ routes' = Append(routes, "route")
    /\ call' = [op |-> "saveRoute"]
    /\ ret' = [op |-> "saveRoute"]
    /\ UNCHANGED <<heap, nodes, pc, start, goal, openSet, closedSet, searches>>
    /\ UNCHANGED <<tiles, tileCache, online>>
    /\ UNCHANGED shellVars

\* CacheManager.clearCache(), its transaction completing: clear() on the
\* object stores 'map_tiles' and 'routes'
ClearCache ==
    /\ pc = "idle"
    /\ tiles' = {}
    /\ routes' = <<>>
    /\ call' = [op |-> "clearCache"]
    /\ ret' = [op |-> "clearCache", resolved |-> TRUE]
    /\ UNCHANGED <<heap, nodes, pc, start, goal, openSet, closedSet, searches>>
    /\ UNCHANGED <<tileCache, online>>
    /\ UNCHANGED shellVars

\* the network is lost, and comes back
NetworkDown ==
    /\ online
    /\ online' = FALSE
    /\ UNCHANGED <<heap, nodes, pc, call, start, goal, openSet, closedSet, ret, searches>>
    /\ UNCHANGED <<tiles, routes, tileCache>>
    /\ UNCHANGED shellVars

NetworkUp ==
    /\ ~online
    /\ online' = TRUE
    /\ UNCHANGED <<heap, nodes, pc, call, start, goal, openSet, closedSet, ret, searches>>
    /\ UNCHANGED <<tiles, routes, tileCache>>
    /\ UNCHANGED shellVars

InitCache == InitWith(NewGraph)

NextCache ==
    \/ \E minX, maxX \in 0..MaxTile : DownloadArea(minX, maxX)
    \/ DownloadTile
    \/ DownloadReturn
    \/ \E tile \in TileCoords : TileRequest(tile)
    \/ SaveRoute
    \/ ClearCache
    \/ NetworkDown
    \/ NetworkUp

\* the stores of the application: areas downloaded, tiles requested by the
\* map, routes saved, the cache cleared, while the network comes and goes
SpecCache == InitCache /\ [][NextCache]_vars

\* C19: a tile that downloadArea fetched from the network and stored stays
\* available offline: a request of the map for that tile, made while the
\* network cannot be reached, is answered with the tile and not with the
\* offline placeholder.
C19_StoredTileServedOffline ==
    (/\ ret.op = "tileRequest"
     /\ ret.offline
     /\ [url |-> DownloadUrl(ret.tile), body |-> "png"] \in tiles)
        => /\ ret.response.from # "placeholder"
           /\ ret.response.body = "png"

\* the urls a tile is requested under
TileUrls == {DownloadUrl(tile) : tile \in TileCoords} \cup {LayerUrl(tile) : tile \in TileCoords}

\* C20: clearCache clears all cached data: when it has resolved, the tile
\* store and the route store are empty, and no tile request made then is
\* answered with a tile cached before, without the network being asked.
C20_ClearCacheClearsAll ==
    ret.op = "clearCache" =>
        /\ tiles = {}
        /\ routes = <<>>
        /\ \A url \in TileUrls, ok \in BOOLEAN :
               handleTileRequest(tileCache, online, url, ok).response.from # "cache"

\* downloadArea is called, makes one pass of its loop, returns
DownloadCalled == pc = "idle" /\ pc' = "downloadArea"
DownloadPass == pc = "downloadArea" /\ pc' = "downloadArea" /\ call' # call
DownloadReturned == pc = "downloadArea" /\ pc' = "idle"

\* C34: downloadArea takes the tiles of the bounds one by one, each exactly
\* once, whether or not something is thrown for a tile: a pass of the loop
\* removes the first of the remaining tiles and counts it in cached exactly
\* when the tile store holds it after the pass (it was stored already, or
\* was fetched with an ok response and saved).  It returns when no tile
\* remains, with total the number of tiles and 0 <= cached <= total.
C34_EveryTileOnce ==
    /\ [][DownloadCalled =>
              /\ call'.total = Len(call'.rest)
              /\ call'.cached = 0
              /\ \A i, j \in 1..Len(call'.rest) : call'.rest[i] = call'.rest[j] => i = j]_vars
    /\ [][DownloadPass =>
              /\ call'.rest = Tail(call.rest)
              /\ call'.total = call.total
              /\ call'.cached =
                     call.cached +
                     (IF Match(tiles', DownloadUrl(Head(call.rest))) # {} THEN 1 ELSE 0)]_vars
    /\ [][DownloadReturned =>
              /\ call.rest = <<>>
              /\ ret' = [op |-> "downloadArea", total |-> call.total, cached |-> call.cached]]_vars
    /\ [](pc = "downloadArea" => (call.cached >= 0 /\ call.cached + Len(call.rest) <= call.total))
    /\ [](ret.op = "downloadArea" => (0 <= ret.cached /\ ret.cached <= ret.total))

\* downloadArea has returned for two tiles, one of them stored and counted,
\* the other, whose pass threw or whose response was not ok, not
C34_Witness ==
    /\ pc = "idle"
    /\ ret.op = "downloadArea"
    /\ ret.total = 2
    /\ ret.cached = 1
    /\ Cardinality({tile \in TileCoords : Match(tiles, DownloadUrl(tile)) # {}}) = 1

\* a step in which the service worker answers a tile request of the map
TileRequestStep ==
    /\ ret'.op = "tileRequest"
    /\ UNCHANGED <<call, tiles, online>>
    /\ ret' # ret \/ tileCache' # tileCache

\* C29: tile requests are served cache first.  When the tile cache holds a
\* response for the request, that response is returned, the network is not
\* contacted and the cache stays as it is; the network is contacted only
\* when the cache holds none.
C29_CacheFirst ==
    [][TileRequestStep =>
          LET cached == Match(tileCache, LayerUrl(ret'.tile))
          IN IF cached # {}
             THEN /\ ret'.response.from = "cache"
                  /\ \E e \in cached : ret'.response.body = e.body
                  /\ tileCache' = tileCache
             ELSE ret'.response.from \in {"network", "placeholder"}]_vars

\* with the network up, a tile request was answered from the cache
C29_Witness ==
    /\ ret.op = "tileRequest"
    /\ ~ret.offline
    /\ ret.response.from = "cache"
    /\ Match(tileCache, LayerUrl(ret.tile)) # {}

(* --------------------------- haversineDistance ------------------------- *)

\* the largest latitude and longitude, in hundredths of a degree, of the
\* points near the origin that distances are taken between
MaxCoord == 2

\* the points near the origin: a square around it
NearPoints == ((0 - MaxCoord)..MaxCoord) \X ((0 - MaxCoord)..MaxCoord)

\* the pairs of points distances are taken between: any two near points, and
\* the two antipodal points with each other and with themselves
DistanceCalls ==
    (NearPoints \X NearPoints) \cup ({FarNorth, FarSouth} \X {FarNorth, FarSouth})

\* Pathfinder.haversineDistance(a.lat, a.lng, b.lat, b.lng), of the public API
HaversineDistance(a, b) ==
    /\ pc = "idle"
    /\ call' = [op |-> "haversineDistance", a |-> a, b |-> b]
    /\ ret' = [op |-> "haversineDistance",
               value |-> haversineDistance(a[1], a[2], b[1], b[2])]
    /\ UNCHANGED <<heap, nodes, pc, start, goal, openSet, closedSet, searches>>
    /\ UNCHANGED cacheVars
    /\ UNCHANGED shellVars

InitDistance == InitWith(NewGraph)

NextDistance == \E c \in DistanceCalls : HaversineDistance(c[1], c[2])

\* distances taken between any two of the points, again and again
SpecDistance == InitDistance /\ [][NextDistance]_vars

\* x == y on two numbers: NaN equals nothing, itself included
SameNumber(x, y) == ~IsNaN(x) /\ ~IsNaN(y) /\ x = y

\* C21: for all coordinates a and b, distance(a, b) equals distance(b, a),
\* and distance(a, a) equals 0.
C21_SymmetricAndZero ==
    ret.op = "haversineDistance" =>
        /\ SameNumber(ret.value,
                      haversineDistance(call.b[1], call.b[2], call.a[1], call.a[2]))
        /\ call.a = call.b => SameNumber(ret.value, 0)

(* ------- the service worker: external resources, app resources -------- *)
\* appCache is the cache CACHE_VERSION, a set of [url, body] like tileCache.

\* the requests handleExternalResource gets: hosts unpkg.com, fonts.*
ExternalUrls == {[host |-> "unpkg.com", path |-> "/leaflet.js"]}

\* '/index.html' of the application's origin
IndexHtml == [host |-> "origin", path |-> "/index.html"]

\* the requests handleAppResource gets; document is request.destination === 'document'
AppRequests ==
    {[url |-> IndexHtml, document |-> TRUE],
     [url |-> [host |-> "origin", path |-> "/"], document |-> TRUE],
     [url |-> [host |-> "origin", path |-> "/js/app.js"], document |-> FALSE]}

\* caches.match(request): the entries under that url in any cache
cachesMatch(app, tile, url) == Match(app, url) \cup Match(tile, url)

\* a response taken from the cache
Cached(entries) ==
    LET e == CHOOSE e \in entries : TRUE
    IN [ok |-> e.body # "error", body |-> e.body, from |-> "cache"]

\* what fetch resolves to when the network answers; ok is the network's answer
Fetched(ok) == [ok |-> ok, body |-> IF ok THEN "file" ELSE "error", from |-> "network"]

\* new Response('... unavailable ...', {status: 503})
Unavailable == [ok |-> FALSE, body |-> "unavailable", from |-> "worker"]

\* a faulty handler: the network's response is put into the cache, ok or not
handleExternalResourcePutsAll(app, tile, net, url, ok) ==
    IF net
    THEN [response |-> Fetched(ok), cache |-> Put(app, url, Fetched(ok).body)]
    ELSE IF cachesMatch(app, tile, url) # {}
    THEN [response |-> Cached(cachesMatch(app, tile, url)), cache |-> app]
    ELSE [response |-> Unavailable, cache |-> app]

\* handleExternalResource(request): the network first, its response put into
\* the cache CACHE_VERSION when it is ok; fetch having thrown, the cached
\* response if any cache holds one, else a response with status 503
handleExternalResource(app, tile, net, url, ok) ==
    IF net
    THEN [response |-> Fetched(ok),
          cache |-> IF Fetched(ok).ok THEN Put(app, url, Fetched(ok).body) ELSE app]
    ELSE IF cachesMatch(app, tile, url) # {}
    THEN [response |-> Cached(cachesMatch(app, tile, url)), cache |-> app]
    ELSE [response |-> Unavailable, cache |-> app]

\* a faulty handler: with the network down and nothing cached, the error of
\* fetch is thrown on and the promise of the handler rejects
handleAppResourceRejects(app, tile, net, request, ok) ==
    IF cachesMatch(app, tile, request.url) # {}
    THEN [response |-> Cached(cachesMatch(app, tile, request.url)), cache |-> app]
    ELSE IF net
    THEN [response |-> Fetched(ok),
          cache |-> IF Fetched(ok).ok THEN Put(app, request.url, Fetched(ok).body) ELSE app]
    ELSE [response |-> [ok |-> FALSE, body |-> "TypeError", from |-> "rejected"], cache |-> app]

\* handleAppResource(request): the cached response if any cache holds one;
\* else the network's response, put into the cache CACHE_VERSION when it is
\* ok; fetch having thrown, the cached '/index.html' for a document if the
\* cache holds it, else a response with status 503
handleAppResource(app, tile, net, request, ok) ==
    IF cachesMatch(app, tile, request.url) # {}
    THEN [response |-> Cached(cachesMatch(app, tile, request.url)), cache |-> app]
    ELSE IF net
    THEN [response |-> Fetched(ok),
          cache |-> IF Fetched(ok).ok THEN Put(app, request.url, Fetched(ok).body) ELSE app]
    ELSE IF request.document /\ Match(app, IndexHtml) # {}
    THEN [response |-> Cached(Match(app, IndexHtml)), cache |-> app]
    ELSE [response |-> Unavailable, cache |-> app]

\* the page requests Leaflet or a font: the fetch event and handleExternalResource
ExternalRequest(url) ==
    /\ \E ok \in BOOLEAN :
         LET answered == handleExternalResource(appCache, tileCache, online, url, ok)
         IN /\ appCache' = answered.cache
            /\ cacheNames' = IF online /\ ok THEN cacheNames \cup {CACHE_VERSION}
                              ELSE cacheNames
            /\ ret' = [op |-> "externalRequest", url |-> url, offline |-> ~online,
                       response |-> answered.response]
    /\ UNCHANGED <<heap, nodes, pc, call, start, goal, openSet, closedSet, searches>>
    /\ UNCHANGED cacheVars
    /\ UNCHANGED <<routePolyline, worker>>
    /\ UNCHANGED markerVars
    /\ UNCHANGED overlayVars

\* the page requests one of its own resources: the fetch event and handleAppResource
AppRequest(request) ==
    /\ \E ok \in BOOLEAN :
         LET answered == handleAppResource(appCache, tileCache, online, request, ok)
             miss == cachesMatch(appCache, tileCache, request.url) = {}
         IN /\ appCache' = answered.cache
            /\ cacheNames' = IF miss /\ ((online /\ ok) \/ (~online /\ request.document))
                              THEN cacheNames \cup {CACHE_VERSION}
                              ELSE cacheNames
            /\ ret' = [op |-> "appRequest", url |-> request.url, offline |-> ~online,
                       response |-> answered.response]
    /\ UNCHANGED <<heap, nodes, pc, call, start, goal, openSet, closedSet, searches>>
    /\ UNCHANGED cacheVars
    /\ UNCHANGED <<routePolyline, worker>>
    /\ UNCHANGED markerVars
    /\ UNCHANGED overlayVars

InitWorker == InitWith(NewGraph)

NextWorker ==
    \/ \E minX, maxX \in 0..MaxTile : DownloadArea(minX, maxX)
    \/ DownloadTile
    \/ DownloadReturn
    \/ \E tile \in TileCoords : TileRequest(tile)
    \/ NetworkDown
    \/ NetworkUp
    \/ \E url \in ExternalUrls : ExternalRequest(url)
    \/ \E request \in AppRequests : AppRequest(request)

\* the service worker answering every kind of request while areas are
\* downloaded and the network comes and goes
SpecWorker == InitWorker /\ [][NextWorker]_vars

\* the bodies in a cache or store
Bodies(store) == {e.body : e \in store}

\* a step in which the service worker answers a request of the page
WorkerStep ==
    /\ ret'.op \in {"tileRequest", "externalRequest", "appRequest"}
    /\ UNCHANGED <<call, tiles, online>>

\* C30: the three fetch handlers of the service worker and downloadArea write
\* a network response to a cache or store only when it is ok: no cache or
\* store ever holds a response that was not ok, a handler that changes a
\* cache has fetched an ok response, and no request is answered from the
\* cache with a response that is not ok.
C30_OnlyOkCached ==
    /\ []("error" \notin Bodies(tileCache) \cup Bodies(appCache) \cup Bodies(tiles))
    /\ []((ret.op \in {"tileRequest", "externalRequest", "appRequest"}
            /\ ret.response.from = "cache") => ret.response.ok)
    /\ [][(WorkerStep /\ <<tileCache, appCache>>' # <<tileCache, appCache>>) =>
              (ret'.response.from = "network" /\ ret'.response.ok)]_vars

\* the network gave a response that was not ok to a request for a resource
\* of the application, and no cache holds it
C30_Witness ==
    /\ ret.op = "appRequest"
    /\ ret.response.from = "network"
    /\ ~ret.response.ok
    /\ cachesMatch(appCache, tileCache, ret.url) = {}

\* the request for that url is a navigation: request.destination === 'document'
IsDocument(url) == \E request \in AppRequests : request.url = url /\ request.document

\* C31: whatever the cache holds and whether the network answers or not,
\* each fetch handler resolves with a response and never rejects.  With no
\* cached copy and no network a tile request gets the offline placeholder
\* image, and an external or app resource gets a 503 response, or, for a
\* document request, the cached index page.
C31_AlwaysResponds ==
    [][WorkerStep =>
          LET response == ret'.response
          IN /\ response.from \in {"cache", "network", "placeholder", "worker"}
             /\ (ret'.op = "tileRequest" /\ ~online
                    /\ Match(tileCache, LayerUrl(ret'.tile)) = {})
                   => response = [ok |-> TRUE, body |-> "svg", from |-> "placeholder"]
             /\ (ret'.op = "externalRequest" /\ ~online
                    /\ cachesMatch(appCache, tileCache, ret'.url) = {})
                   => response = Unavailable
             /\ (ret'.op = "appRequest" /\ ~online
                    /\ cachesMatch(appCache, tileCache, ret'.url) = {})
                   => IF IsDocument(ret'.url) /\ Match(appCache, IndexHtml) # {}
                      THEN /\ response.from = "cache"
                           /\ response.body \in Bodies(Match(appCache, IndexHtml))
                      ELSE response = Unavailable]_vars

\* with the network down, a document that no cache holds was answered with
\* the cached index page
C31_Witness ==
    /\ ret.op = "appRequest"
    /\ ret.offline
    /\ ret.url # IndexHtml
    /\ cachesMatch(appCache, tileCache, ret.url) = {}
    /\ ret.response.from = "cache"

(* ------------- the service worker: install and activate --------------- *)

\* CACHE_ASSETS, the core assets, as urls of the application's origin
CACHE_ASSETS ==
    {[host |-> "origin", path |-> p] :
        p \in {"/", "/index.html", "/css/styles.css", "/js/app.js", "/js/map.js",
                "/js/cache.js", "/js/pathfinding.js", "/js/sw-register.js", "/manifest.json"}}

\* names of caches that earlier versions of the service worker left behind
OldCacheNames == {"geocache-v0", "geocache-tiles-v0"}

\* a service worker whose script has been parsed and that awaits its install event
NewWorker == [state |-> "parsed", skipWaiting |-> FALSE, claimed |-> FALSE]

\* cache.addAll(requests): every request is fetched; the responses are put
\* into the cache if all of them are ok, else none is and addAll rejects.
\* failing are the requests whose fetch throws or whose response is not ok
addAll(cache, requests, net, failing) ==
    IF net /\ failing \cap requests = {}
    THEN [rejected |-> FALSE,
          cache |-> {e \in cache : e.url \notin requests} \cup
                    {[url |-> url, body |-> "file"] : url \in requests}]
    ELSE [rejected |-> TRUE, cache |-> cache]

\* the install listener: caches.open(CACHE_VERSION), cache.addAll(CACHE_ASSETS),
\* then skipWaiting(); a rejection on the way is caught and logged, so the
\* promise handed to event.waitUntil fulfills either way and the worker is installed
install(app, names, net, failing) ==
    LET added == addAll(app, CACHE_ASSETS, net, failing)
    IN [appCache |-> added.cache,
        cacheNames |-> names \cup {CACHE_VERSION},
        stored |-> ~added.rejected,
        worker |-> [state |-> "installed", skipWaiting |-> ~added.rejected, claimed |-> FALSE]]

\* a faulty filter of the activate listener: only the app cache is kept
KeptAppOnly(name) == name = CACHE_VERSION

\* the negation of the filter of the activate listener:
\* name !== CACHE_VERSION && name !== TILE_CACHE
Kept(name) == name = CACHE_VERSION \/ name = TILE_CACHE

\* the activate listener: caches.keys(), caches.delete(name) for every name
\* that is not kept, then clients.claim().  A deleted cache loses its entries
activate(app, tile, names) ==
    LET kept == {name \in names : Kept(name)}
    IN [cacheNames |-> kept,
        deleted |-> names \ kept,
        appCache |-> IF CACHE_VERSION \in kept THEN app ELSE {},
        tileCache |-> IF TILE_CACHE \in kept THEN tile ELSE {},
        worker |-> [state |-> "activated", skipWaiting |-> worker.skipWaiting, claimed |-> TRUE]]

\* the install event of a new service worker
Install(failing) ==
    /\ worker.state = "parsed"
    /\ LET installed == install(appCache, cacheNames, online, failing)
       IN /\ appCache' = installed.appCache
          /\ cacheNames' = installed.cacheNames
          /\ worker' = installed.worker
          /\ ret' = [op |-> "install", stored |-> installed.stored]
    /\ UNCHANGED <<heap, nodes, pc, call, start, goal, openSet, closedSet, searches>>
    /\ UNCHANGED cacheVars
    /\ UNCHANGED routePolyline
    /\ UNCHANGED markerVars
    /\ UNCHANGED overlayVars

\* the activate event of an installed service worker
Activate ==
    /\ worker.state = "installed"
    /\ LET activated == activate(appCache, tileCache, cacheNames)
       IN /\ appCache' = activated.appCache
          /\ tileCache' = activated.tileCache
          /\ cacheNames' = activated.cacheNames
          /\ worker' = activated.worker
          /\ ret' = [op |-> "activate", deleted |-> activated.deleted]
    /\ UNCHANGED <<heap, nodes, pc, call, start, goal, openSet, closedSet, searches>>
    /\ UNCHANGED <<tiles, routes, online>>
    /\ UNCHANGED routePolyline
    /\ UNCHANGED markerVars
    /\ UNCHANGED overlayVars

\* the entries an earlier installation or earlier requests left in a cache
EarlierEntries(name, entries) == IF name \in cacheNames THEN {{}, entries} ELSE {{}}

\* a new service worker on an origin that holds any of the caches of this
\* and of earlier versions
InitLifecycle ==
    /\ heap = <<>>
    /\ nodes = <<>>
    /\ pc = "idle"
    /\ call = NoCall
    /\ start = Null
    /\ goal = Null
    /\ openSet = <<>>
    /\ closedSet = {}
    /\ ret = NoRet
    /\ searches = <<>>
    /\ tiles = {}
    /\ routes = <<>>
    /\ online \in BOOLEAN
    /\ routePolyline = NoPolyline
    /\ cacheNames \in SUBSET ({CACHE_VERSION, TILE_CACHE} \cup OldCacheNames)
    /\ appCache \in EarlierEntries(CACHE_VERSION, {[url |-> IndexHtml, body |-> "file"]})
    /\ tileCache \in
           EarlierEntries(TILE_CACHE,
                          {[url |-> LayerUrl([x |-> 0, y |-> 0, z |-> 3]), body |-> "png"]})
    /\ worker = NewWorker
    /\ clickCount = 0
    /\ originMarker = NoMarker
    /\ destinationMarker = NoMarker
    /\ loadingOverlay = FALSE
    /\ pending = {}

NextLifecycle ==
    \/ \E failing \in {{}} \cup {{asset} : asset \in CACHE_ASSETS} : Install(failing)
    \/ Activate
    \/ NetworkDown
    \/ NetworkUp

\* a new version of the service worker is installed and activated
SpecLifecycle == InitLifecycle /\ [][NextLifecycle]_vars

\* C32: when the activate handler completes, every cache whose name is
\* neither CACHE_VERSION nor TILE_CACHE has been deleted, and the caches of
\* those two names that were there before are there still, with their entries.
C32_ActivateKeepsCurrent ==
    [][(worker.state = "installed" /\ worker'.state = "activated") =>
          /\ cacheNames' = cacheNames \cap {CACHE_VERSION, TILE_CACHE}
          /\ ret'.deleted = cacheNames \ {CACHE_VERSION, TILE_CACHE}
          /\ appCache' = appCache
          /\ tileCache' = tileCache]_vars

\* activation has deleted an old cache and kept both current caches, which hold entries
C32_Witness ==
    /\ worker.state = "activated"
    /\ ret.op = "activate"
    /\ ret.deleted # {}
    /\ cacheNames = {CACHE_VERSION, TILE_CACHE}
    /\ appCache # {}
    /\ tileCache # {}

\* C33: the service worker completes its installation, and calls
\* skipWaiting, only if every core asset was stored in the app cache: a
\* worker that is installed or active has all of CACHE_ASSETS in the cache.
C33_InstalledOnlyWithAssets ==
    worker.state \in {"installed", "activated"} =>
        \A asset \in CACHE_ASSETS : Match(appCache, asset) # {}

(* ------------------ MapManager: drawRoute, clearRoute ------------------ *)
\* routePolyline is null (NoPolyline) or the polyline on the map with its points.

\* the longest path handed to drawRoute
MaxPathPoints == 2

\* drawRoute called with null for path
NoPath == [null |-> TRUE, points |-> <<>>]

RECURSIVE PathsOf(_)
PathsOf(n) ==
    IF n = 0 THEN {<<>>}
    ELSE {Append(path, p) : path \in PathsOf(n - 1), p \in Positions}

\* the paths handed to drawRoute
DrawnPaths ==
    {NoPath} \cup
    {[null |-> FALSE, points |-> points] : points \in UNION {PathsOf(n) : n \in 0..MaxPathPoints}}

\* clearRoute(): the polyline, if there is one, is removed from the map.
\* removed is the layer handed to map.removeLayer, null if it was not called
clearRoute(polyline) == [routePolyline |-> NoPolyline, removed |-> polyline]

\* !path || path.length < 2
InvalidPath(path) == path.null \/ Len(path.points) < 2

\* drawRoute(path): clearRoute() comes first, then the test of path
drawRoute(polyline, path) ==
    LET cleared == clearRoute(polyline)
    IN IF InvalidPath(path)
       THEN [routePolyline |-> cleared.routePolyline, removed |-> cleared.removed,
             warned |-> TRUE]
       ELSE [routePolyline |-> [drawn |-> TRUE, latLngs |-> path.points],
             removed |-> cleared.removed, warned |-> FALSE]

\* MapManager.drawRoute(path)
DrawRoute(path) ==
    /\ pc = "idle"
    /\ call' = [op |-> "drawRoute", path |-> path]
    /\ LET drawn == drawRoute(routePolyline, path)
       IN /\ routePolyline' = drawn.routePolyline
          /\ ret' = [op |-> "drawRoute", warned |-> drawn.warned, removed |-> drawn.removed]
    /\ UNCHANGED <<heap, nodes, pc, start, goal, openSet, closedSet, searches>>
    /\ UNCHANGED cacheVars
    /\ UNCHANGED workerVars
    /\ UNCHANGED markerVars
    /\ UNCHANGED overlayVars

\* MapManager.clearRoute()
ClearRoute ==
    /\ pc = "idle"
    /\ call' = [op |-> "clearRoute"]
    /\ LET cleared == clearRoute(routePolyline)
       IN /\ routePolyline' = cleared.routePolyline
          /\ ret' = [op |-> "clearRoute", removed |-> cleared.removed]
    /\ UNCHANGED <<heap, nodes, pc, start, goal, openSet, closedSet, searches>>
    /\ UNCHANGED cacheVars
    /\ UNCHANGED workerVars
    /\ UNCHANGED markerVars
    /\ UNCHANGED overlayVars

InitMap == InitWith(NewGraph)

NextMap ==
    \/ \E path \in DrawnPaths : DrawRoute(path)
    \/ ClearRoute

\* routes drawn and cleared on the map
SpecMap == InitMap /\ [][NextMap]_vars

(* ------------------- MapManager: clicks and markers -------------------- *)

\* the places of the map that are clicked, in hundredths of a degree
ClickPoints == {<<1, 1>>, <<2, 3>>, <<5, 4>>}

\* setOriginMarker(location), setDestinationMarker(location): the marker
\* there was, if any, is removed and a new one is put at the location
setOriginMarker(location) == [set |-> TRUE, lat |-> location[1], lng |-> location[2]]
setDestinationMarker(location) == [set |-> TRUE, lat |-> location[1], lng |-> location[2]]

\* the click handler that setupMapClickHandler registers, with the
\* clickCount of its closure
click(count, origin, destination, location) ==
    IF count = 0
    THEN [clickCount |-> 1, originMarker |-> setOriginMarker(location),
          destinationMarker |-> destination, set |-> "origin"]
    ELSE IF count = 1
    THEN [clickCount |-> 0, originMarker |-> origin,
          destinationMarker |-> setDestinationMarker(location), set |-> "destination"]
    ELSE [clickCount |-> count, originMarker |-> origin,
          destinationMarker |-> destination, set |-> "none"]

\* MapManager.clearAll(): the route and both markers are removed; the
\* clickCount of the click handler's closure is out of its reach
clearAll(polyline, count) ==
    [routePolyline |-> clearRoute(polyline).routePolyline,
     removed |-> clearRoute(polyline).removed,
     originMarker |-> NoMarker, destinationMarker |-> NoMarker,
     clickCount |-> count]

\* a click on the map
MapClick(location) ==
    /\ pc = "idle"
    /\ call' = [op |-> "click", location |-> location]
    /\ LET clicked == click(clickCount, originMarker, destinationMarker, location)
       IN /\ clickCount' = clicked.clickCount
          /\ originMarker' = clicked.originMarker
          /\ destinationMarker' = clicked.destinationMarker
          /\ ret' = [op |-> "click", set |-> clicked.set]
    /\ UNCHANGED <<heap, nodes, pc, start, goal, openSet, closedSet, searches>>
    /\ UNCHANGED cacheVars
    /\ UNCHANGED workerVars
    /\ UNCHANGED routePolyline
    /\ UNCHANGED overlayVars

\* the Clear Route button: the application's clearRoute, which calls
\* MapManager.clearAll()
ClearAll ==
    /\ pc = "idle"
    /\ call' = [op |-> "clearAll"]
    /\ LET cleared == clearAll(routePolyline, clickCount)
       IN /\ routePolyline' = cleared.routePolyline
          /\ originMarker' = cleared.originMarker
          /\ destinationMarker' = cleared.destinationMarker
          /\ clickCount' = cleared.clickCount
          /\ ret' = [op |-> "clearAll", removed |-> cleared.removed]
    /\ UNCHANGED <<heap, nodes, pc, start, goal, openSet, closedSet, searches>>
    /\ UNCHANGED cacheVars
    /\ UNCHANGED workerVars
    /\ UNCHANGED overlayVars

InitClicks == InitWith(NewGraph)

NextClicks ==
    \/ \E location \in ClickPoints : MapClick(location)
    \/ ClearAll
    \/ \E path \in DrawnPaths : DrawRoute(path)

\* clicks on the map, routes drawn, and the Clear Route button
SpecClicks == InitClicks /\ [][NextClicks]_vars

\* C36: after Clear Route has removed the markers, the next click on the map
\* sets the origin and the click after it the destination, whatever number
\* of clicks came before: a click that follows clearAll sets the origin, at
\* the place clicked, and a click that follows a click that set the origin
\* sets the destination.
C36_ClickAfterClear ==
    /\ [][(ret.op = "clearAll" /\ call'.op = "click") =>
              /\ ret'.set = "origin"
              /\ originMarker' = setOriginMarker(call'.location)]_vars
    /\ [][(ret.op = "click" /\ ret.set = "origin" /\ call'.op = "click") =>
              /\ ret'.set = "destination"
              /\ destinationMarker' = setDestinationMarker(call'.location)]_vars

(* --------------- the application: handlers and the overlay ------------- *)

\* loadingOverlay is TRUE when the overlay's style.display is 'flex', FALSE when
\* it is 'none'; pending holds the asynchronous handlers that have passed
\* their showLoading(true) and not yet their finally block, a route
\* calculation with the path between the markers it read.

\* showLoading(show): elements.loadingOverlay.style.display = show ? 'flex' : 'none'
showLoading(show) == show

\* the handlers in progress by name
InProgress(name) == {h \in pending : h.name = name}

\* getOrigin() and getDestination() of calculateRoute, both markers set
MarkedPath == <<<<originMarker.lat, originMarker.lng>>,
                <<destinationMarker.lat, destinationMarker.lng>>>>

\* the click on Calculate Route: calculateRoute up to its first await. It
\* returns at once when a marker is missing
CalculateRouteStarts ==
    /\ pc = "idle"
    /\ InProgress("calculateRoute") = {}
    /\ call' = [op |-> "calculateRoute", at |-> "click"]
    /\ IF ~originMarker.set \/ ~destinationMarker.set
       THEN /\ ret' = [op |-> "calculateRoute", outcome |-> "returned"]
            /\ UNCHANGED overlayVars
       ELSE /\ ret' = [op |-> "calculateRoute", outcome |-> "awaiting"]
            /\ loadingOverlay' = showLoading(TRUE)
            /\ pending' = pending \cup {[name |-> "calculateRoute", path |-> MarkedPath]}
    /\ UNCHANGED <<heap, nodes, pc, start, goal, openSet, closedSet, searches>>
    /\ UNCHANGED cacheVars
    /\ UNCHANGED workerVars
    /\ UNCHANGED routePolyline
    /\ UNCHANGED markerVars

\* calculateRoute from the result of Pathfinder.calculateRoute to the end of
\* its finally block: a route found is drawn and saved (a failure to save
\* is caught), and the overlay is hidden
CalculateRouteFinishes(success) ==
    /\ pc = "idle"
    /\ \E h \in InProgress("calculateRoute") :
          /\ routePolyline' =
                 IF success
                 THEN drawRoute(routePolyline, [null |-> FALSE, points |-> h.path]).routePolyline
                 ELSE routePolyline
          /\ routes' = IF success /\ Len(routes) < MaxRoutes
                       THEN Append(routes, "route") ELSE routes
          /\ pending' = pending \ {h}
    /\ loadingOverlay' = showLoading(FALSE)
    /\ call' = [op |-> "calculateRoute", at |-> "finally"]
    /\ ret' = [op |-> "calculateRoute", outcome |-> IF success THEN "done" ELSE "error"]
    /\ UNCHANGED <<heap, nodes, pc, start, goal, openSet, closedSet, searches>>
    /\ UNCHANGED <<tiles, tileCache, online>>
    /\ UNCHANGED workerVars
    /\ UNCHANGED markerVars

\* the click on Download Area: downloadArea up to its await
DownloadAreaStarts ==
    /\ pc = "idle"
    /\ InProgress("downloadArea") = {}
    /\ call' = [op |-> "downloadArea", at |-> "click"]
    /\ ret' = [op |-> "downloadArea", outcome |-> "awaiting"]
    /\ loadingOverlay' = showLoading(TRUE)
    /\ pending' = pending \cup {[name |-> "downloadArea", path |-> <<>>]}
    /\ UNCHANGED <<heap, nodes, pc, start, goal, openSet, closedSet, searches>>
    /\ UNCHANGED cacheVars
    /\ UNCHANGED workerVars
    /\ UNCHANGED routePolyline
    /\ UNCHANGED markerVars

\* downloadArea from the result of CacheManager.downloadArea, here of a map
\* that shows one tile, to the end of its finally block
DownloadAreaFinishes(ok, thrown) ==
    /\ pc = "idle"
    /\ \E h \in InProgress("downloadArea") : pending' = pending \ {h}
    /\ LET passed == downloadTile(tiles, tileCache, online,
                                  DownloadUrl(Head(getTilesForBounds(0, 0))), ok, thrown)
       IN /\ tiles' = passed.tiles
          /\ tileCache' = passed.tileCache
          /\ cacheNames' = IF passed.fetched THEN cacheNames \cup {TILE_CACHE} ELSE cacheNames
    /\ loadingOverlay' = showLoading(FALSE)
    /\ call' = [op |-> "downloadArea", at |-> "finally"]
    /\ ret' = [op |-> "downloadArea", outcome |-> "done"]
    /\ UNCHANGED <<heap, nodes, pc, start, goal, openSet, closedSet, searches>>
    /\ UNCHANGED <<routes, online>>
    /\ UNCHANGED <<appCache, routePolyline, worker>>
    /\ UNCHANGED markerVars

\* the click on Clear Cache: clearCacheHandler up to its first await. It
\* returns at once when the user does not confirm
ClearCacheStarts(confirmed) ==
    /\ pc = "idle"
    /\ InProgress("clearCacheHandler") = {}
    /\ call' = [op |-> "clearCacheHandler", at |-> "click"]
    /\ IF ~confirmed
       THEN /\ ret' = [op |-> "clearCacheHandler", outcome |-> "returned"]
            /\ UNCHANGED overlayVars
       ELSE /\ ret' = [op |-> "clearCacheHandler", outcome |-> "awaiting"]
            /\ loadingOverlay' = showLoading(TRUE)
            /\ pending' = pending \cup {[name |-> "clearCacheHandler", path |-> <<>>]}
    /\ UNCHANGED <<heap, nodes, pc, start, goal, openSet, closedSet, searches>>
    /\ UNCHANGED cacheVars
    /\ UNCHANGED workerVars
    /\ UNCHANGED routePolyline
    /\ UNCHANGED markerVars

\* clearCacheHandler from the end of CacheManager.clearCache, resolved or
\* rejected, to the end of its finally block
ClearCacheFinishes(cleared) ==
    /\ pc = "idle"
    /\ \E h \in InProgress("clearCacheHandler") : pending' = pending \ {h}
    /\ tiles' = IF cleared THEN {} ELSE tiles
    /\ routes' = IF cleared THEN <<>> ELSE routes
    /\ loadingOverlay' = showLoading(FALSE)
    /\ call' = [op |-> "clearCacheHandler", at |-> "finally"]
    /\ ret' = [op |-> "clearCacheHandler", outcome |-> IF cleared THEN "done" ELSE "error"]
    /\ UNCHANGED <<heap, nodes, pc, start, goal, openSet, closedSet, searches>>
    /\ UNCHANGED <<tileCache, online>>
    /\ UNCHANGED workerVars
    /\ UNCHANGED routePolyline
    /\ UNCHANGED markerVars

InitOverlay == InitWith(NewGraph)

NextOverlay ==
    \/ \E location \in ClickPoints : MapClick(location)
    \/ CalculateRouteStarts
    \/ \E success \in BOOLEAN : CalculateRouteFinishes(success)
    \/ DownloadAreaStarts
    \/ \E ok \in BOOLEAN, thrown \in Throws : DownloadAreaFinishes(ok, thrown)
    \/ \E confirmed \in BOOLEAN : ClearCacheStarts(confirmed)
    \/ \E cleared \in BOOLEAN : ClearCacheFinishes(cleared)

\* the buttons of the panel clicked while earlier handlers are still awaiting
SpecOverlay == InitOverlay /\ [][NextOverlay]_vars

\* C37: the loading overlay is visible whenever a route calculation, an
\* area download or a cache clearing is in progress, also when several
\* overlap, and hidden once none is.
C37_OverlayWhilePending == loadingOverlay <=> (pending # {})

\* C28: a drawRoute call with no path or with fewer than two points warns
\* and is ignored: the route shown on the map after the call is the route
\* that was shown before it.
C28_InvalidDrawIgnored ==
    [][(call'.op = "drawRoute" /\ InvalidPath(call'.path)) =>
          (ret'.warned /\ routePolyline' = routePolyline)]_vars

\* the whole API on one graph
Next ==
    \/ NextGraph \/ NextSearch \/ NextRoute \/ NextDefault \/ NextText \/ NextCache
    \/ NextWorker
    \/ NextDistance \/ NextMap \/ NextLifecycle \/ NextTenths \/ NextClicks \/ NextOverlay

Spec == Init /\ [][Next]_vars

====
